---- MODULE Spec2Model ----
(***************************************************************************)
(* State-machine model of the ThreeCityscape component (the world          *)
(* streaming engine of the wireframe city) and of its callers.             *)
(*                                                                         *)
(* Units.  World lengths are kept in tenths of a world unit (0.6 -> 6),    *)
(* clock readings in milliseconds (0.35 s -> 350), the field of view in    *)
(* hundredths of a degree (60 -> 6000), opacities in 1/OPACITY_ONE so that *)
(* both 0.01 and elapsed/FADE_IN_DURATION are whole numbers.  The camera   *)
(* azimuth is counted in eighths of a turn (pi/4, the step of              *)
(* turnViewDirection); sines and cosines come from a table in 1/10000.     *)
(***************************************************************************)
EXTENDS Integers, Sequences, FiniteSets, TLC

(***************************************************************************)
(* Bounds of the model                                                     *)
(***************************************************************************)
\* largest number of sub-clusters one batch asks for (the code draws 1..5)
MaxClustersPerBatch == 2
\* batches that may be unsettled at the same time
MaxBatches == 2
\* the cluster-id counter is not driven past this value
MaxIssued == 3
\* frames the camera may travel away from its starting point, per axis
MaxTravel == 2
\* the azimuth stays within -MaxAzimuth..MaxAzimuth eighths of a turn
MaxAzimuth == 1
\* the clock is not advanced past this reading (ms)
MaxClock == 350
\* captures whose composition may be awaited at the same time
MaxCompositions == 2

\* generateNewLandscape calls in one behaviour
MaxCalls == 3
\* turns to one side the turning specification follows
MaxTurns == 12

(***************************************************************************)
(* Program constants (LogoSpinner.tsx lines 88-110), in the model's units  *)
(***************************************************************************)
HIGH_ANGLE_INITIAL_CAMERA_Y == 3000
HIGH_ANGLE_INITIAL_CAMERA_Z == 1000
HIGH_ANGLE_FORWARD_SPEED == 6
MIN_FOV == 3000
MAX_FOV == 9000
DEFAULT_FOV == 6000
FOV_STEP == 200
FOV_EPSILON == 1
GENERATION_TRIGGER_DISTANCE == 4000
CLUSTER_SPAWN_AHEAD_OFFSET == 6000
MIN_DISTANCE_BETWEEN_TRIGGER_POINTS == 3000
MAX_ACTIVE_CLUSTER_REQUESTS == 1
FADE_IN_DURATION == 350
INTER_CLUSTER_SPACING == 2250
MAX_RANDOM_CLUSTERS == 5
\* opacity 1.0; 0.01 is OPACITY_ONE \div 100, elapsed/0.35 s is elapsed * 2
OPACITY_ONE == 700
INITIAL_DYNAMIC_OPACITY == 7
\* the aspect ratio of the mount element (16:9), and the square of a capture
MOUNT_ASPECT == 178
SQUARE_ASPECT == 100
TRIG_ONE == 10000
TRIG_DIAGONAL == 7071
\* the low six bits of Math.PI / 4 taken as a whole number of 2^-53
QUARTER_TURN_LOW_BITS == 24
\* the building counts a Landscape may have (App.tsx lines 155-156)
minBuildings == 25
maxBuildings == 50

(***************************************************************************)
(* Arithmetic helpers                                                      *)
(***************************************************************************)
Abs(n) == IF n < 0 THEN -n ELSE n

Min(a, b) == IF a < b THEN a ELSE b

Max(a, b) == IF a > b THEN a ELSE b

\* v * t / TRIG_ONE rounded to the nearest whole number
Scaled(v, t) == ((v * t) + (TRIG_ONE \div 2)) \div TRIG_ONE

\* Math.sin of k eighths of a turn, in 1/TRIG_ONE
Sin8(k) ==
  LET r == k % 8
  IN CASE r = 0 -> 0
       [] r = 1 -> TRIG_DIAGONAL
       [] r = 2 -> TRIG_ONE
       [] r = 3 -> TRIG_DIAGONAL
       [] r = 4 -> 0
       [] r = 5 -> -TRIG_DIAGONAL
       [] r = 6 -> -TRIG_ONE
       [] OTHER -> -TRIG_DIAGONAL

\* Math.cos of k eighths of a turn, in 1/TRIG_ONE
Cos8(k) == Sin8(k + 2)

Vec(x, y, z) == [x |-> x, y |-> y, z |-> z]

\* THREE.Vector3.addScaledVector(dir, s), dir in 1/TRIG_ONE
AddScaledVector(v, dir, s) ==
  Vec(v.x + Scaled(s, dir.x), v.y + Scaled(s, dir.y), v.z + Scaled(s, dir.z))

\* THREE.Vector3.lengthSq
LengthSq(v) == v.x * v.x + v.y * v.y + v.z * v.z

\* THREE.Vector3.distanceToSquared(p, q) < d * d; a component already d apart
\* decides the comparison before any square is taken
DistanceToSquaredLess(p, q, d) ==
  LET dx == Abs(p.x - q.x)
      dy == Abs(p.y - q.y)
      dz == Abs(p.z - q.z)
  IN IF dx >= d \/ dy >= d \/ dz >= d
       THEN FALSE
       ELSE dx * dx + dy * dy + dz * dz < d * d

\* forwardDirection of animate: (sin a, 0, -cos a), in 1/TRIG_ONE
ForwardDirection(a) == Vec(Sin8(a), 0, -Cos8(a))

\* rightDirection of animate: forward x cam.up with cam.up = (0, 1, 0)
RightDirection(a) == LET f == ForwardDirection(a) IN Vec(-f.z, 0, f.x)

(***************************************************************************)
(* Data: CityElementData, LandscapeData and the generator's answers        *)
(***************************************************************************)
\* an element id: the cluster prefix counter of `dyn_c<n>_` (NoPrefix for a
\* Landscape building) and the generator's own id
NoPrefix == -1

ElementId(prefix, name) == [prefix |-> prefix, name |-> name]

Box(id, x, z, w, h, d) ==
  [id |-> id, shape |-> "box", position |-> Vec(x, 0, z),
   dimensions |-> [height |-> h, width |-> w, depth |-> d, radius |-> 0]]

Cylinder(id, x, z, r, h) ==
  [id |-> id, shape |-> "cylinder", position |-> Vec(x, 0, z),
   dimensions |-> [height |-> h, width |-> 0, depth |-> 0, radius |-> r]]

\* the Landscapes handed to the component; NullLandscape is landscapeData = null
NullLandscape == [isNull |-> TRUE, buildings |-> << >>]

Landscape(bs) == [isNull |-> FALSE, buildings |-> bs]

\* a box of width 10, height 20, depth 10 at (0, 0, 0)
BuildingA == Box(ElementId(NoPrefix, 1), 0, 0, 100, 200, 100)

BuildingB == Cylinder(ElementId(NoPrefix, 2), -500, 300, 50, 900)

\* same id as BuildingB, another description
BuildingB2 == Box(ElementId(NoPrefix, 2), 400, -700, 80, 500, 60)

BuildingC == Box(ElementId(NoPrefix, 3), 1200, -2000, 300, 1500, 250)

Landscapes ==
  { NullLandscape,
    Landscape(<< >>),
    Landscape(<<BuildingA, BuildingB>>),
    Landscape(<<BuildingB2, BuildingC>>),
    \* two buildings of the answer carry the same id
    Landscape(<<BuildingA, BuildingB, BuildingB2>>) }

\* the sizes of the element lists a fulfilled cluster request carries
ClusterSizes == {5, 6}

\* the i-th building of a generated cluster, in the cluster's local frame
ClusterBuilding(prefix, i) ==
  IF i % 2 = 0
    THEN Cylinder(ElementId(prefix, i), 150 * i - 500, 400 - 120 * i, 40 + 10 * i, 300 + 100 * i)
    ELSE Box(ElementId(prefix, i), 150 * i - 500, 120 * i - 400, 60 + 20 * i, 200 * i, 80)

\* what generateBuildingCluster(`dyn_c<prefix>_`) resolves to for a valid
\* answer of k buildings: ids carry the prefix
ClusterResponse(prefix, k) == [i \in 1..k |-> ClusterBuilding(prefix, i)]

\* outcomes of one generateBuildingCluster promise
Outcomes == {"rejected", "null", "fulfilled"}

(***************************************************************************)
(* JSON values as JSON.parse gives them (src/App.tsx 153, 283)             *)
(***************************************************************************)
\* a missing property reads as undefined
\* a value has a type and, by it, a number n, characters s or properties o
NoProperties == [none |-> 0]

JsonUndefined == [t |-> "undefined", n |-> 0, s |-> << >>, o |-> NoProperties]

JsonNull == [t |-> "null", n |-> 0, s |-> << >>, o |-> NoProperties]

JsonNumber(number) == [t |-> "number", n |-> number, s |-> << >>, o |-> NoProperties]

\* a string is the sequence of its characters
JsonString(chars) == [t |-> "string", n |-> 0, s |-> chars, o |-> NoProperties]

JsonObject(properties) == [t |-> "object", n |-> 0, s |-> << >>, o |-> properties]

\* typeof: null is an object
TypeOf(value) == IF value.t = "null" THEN "object" ELSE value.t

\* String.prototype.trim: the characters without the leading and trailing
\* white space
Trim(chars) ==
  LET Inked == { n \in 1..Len(chars) : chars[n] # " " }
  IN IF Inked = {} THEN << >>
     ELSE LET first == CHOOSE n \in Inked : \A m \in Inked : n <= m
              last == CHOOSE n \in Inked : \A m \in Inked : n >= m
          IN [n \in 1..(last - first + 1) |-> chars[first + n - 1]]

(***************************************************************************)
(* State                                                                   *)
(***************************************************************************)
VARIABLES
  mounted,                        \* scene, camera, renderer, group, sky, clock refs are set
  animationFrameId,               \* animationFrameIdRef names a frame that is still due
  domElementAttached,             \* renderer.domElement is a child of the mount
  disposeCalls,                   \* the dispose() calls of the teardown that ran last
  cameraPosition,                 \* cameraRef.current.position
  cameraAzimuthAngle,             \* cameraAzimuthAngleRef, eighths of a turn
  azimuthRounding,                \* cameraAzimuthAngleRef: what the additions rounded
                                  \* away so far, in units of 2^-53 rad
  cameraFov,                      \* cameraFovRef: the target field of view
  camFov,                         \* cameraRef.current.fov: the applied field of view
  isCapturing,                    \* isCapturingRef
  cameraAspect,                   \* cameraRef.current.aspect, in hundredths
  skyVisible,                     \* skyMeshRef.current.visible
  compositions,                   \* captures whose image composition is still awaited
  initialPinchDistance,           \* initialPinchDistanceRef (NoPinch = null)
  initialFovAtPinchStart,         \* initialFovAtPinchStartRef (NoPinch = null)
  dynamicallyGeneratedBuildings,  \* dynamicallyGeneratedBuildingsRef: Set of ids
  generationTriggerPoints,        \* generationTriggerPointsRef: sequence of points
  activeClusterRequests,          \* activeClusterRequestsRef
  nextClusterIdCounter,           \* nextClusterIdCounterRef
  group,                          \* cityElementsGroupRef.current.children
  batches,                        \* Promise.allSettled batches not yet settled
  clock,                          \* clockRef.current.getElapsedTime(), ms
  landscapeData,                  \* the landscapeData prop last applied by the effect
  lastRun,                        \* what the handler that ran last did to its collaborators
  apiKey,                         \* process.env.API_KEY is set
  appLandscapeData,               \* App's landscapeData state
  isLoading,                      \* App's isLoading state
  error,                          \* App's error state (NoError = null)
  appPhase,                       \* where App's generateNewLandscape stands
  calls,                          \* generateNewLandscape calls made
  failures,                       \* generateNewLandscape calls that ended with an error
  submitted,                      \* a parsed JSON value handed to isValidBuildingElement
  verdict,                        \* what isValidBuildingElement returned for it
  isGenerating,                   \* MonitorScreen's isGenerating prop
  flash                           \* MonitorScreen's flash state and the timeout it waits for

vars ==
  << mounted, animationFrameId, domElementAttached, disposeCalls,
     cameraPosition, cameraAzimuthAngle, azimuthRounding, cameraFov, camFov, isCapturing,
     cameraAspect, skyVisible, compositions, initialPinchDistance, initialFovAtPinchStart, dynamicallyGeneratedBuildings,
     generationTriggerPoints, activeClusterRequests, nextClusterIdCounter, group,
     batches, clock, landscapeData, lastRun, apiKey, appLandscapeData, isLoading,
     error, appPhase, calls, failures, submitted, verdict, isGenerating, flash >>

appVars ==
  << apiKey, appLandscapeData, isLoading, error, appPhase, calls, failures,
     submitted, verdict, isGenerating, flash >>

mountVars == << mounted, animationFrameId, domElementAttached, disposeCalls >>

cameraVars == << cameraPosition, cameraAzimuthAngle, azimuthRounding >>

captureVars == << isCapturing, cameraAspect, skyVisible, compositions >>

fovVars == << cameraFov, camFov, initialPinchDistance, initialFovAtPinchStart >>

streamVars ==
  << dynamicallyGeneratedBuildings, generationTriggerPoints, activeClusterRequests,
     nextClusterIdCounter, batches >>

sceneVars == << group, landscapeData >>

NoPinch == -1

\* MonitorScreen's flash state after useState and useRef (lines 156-161):
\* nothing flashes and no timeout is set
NoFlash ==
  [type |-> "none", isFlashing |-> FALSE, activeFlashType |-> "null",
   isStaticFlashingFullScreen |-> FALSE, timeout |-> "none"]

\* App's error state: null, or a message and the constraints it names
NoError == [isNull |-> TRUE, text |-> << >>, details |-> {}]

ErrorMessage(text, details) == [isNull |-> FALSE, text |-> text, details |-> details]

\* the record of one handler run: which objects had a geometry disposed,
\* which received a newly built geometry, whether onScreenshotInitiated was
\* called, how many off-screen render passes and whether the frame was drawn
Ran(disposed, created, notified, passes, drew) ==
  [disposed |-> disposed, created |-> created,
   notified |-> notified, renderPasses |-> passes, drew |-> drew]


\* the refs after useRef and the construction part of the setup effect
\* (lines 133-158, 562-591), before the first animate() call
Refs ==
  /\ cameraPosition = Vec(0, HIGH_ANGLE_INITIAL_CAMERA_Y, HIGH_ANGLE_INITIAL_CAMERA_Z)
  /\ cameraAzimuthAngle = 0
  /\ azimuthRounding = 0
  /\ cameraFov = DEFAULT_FOV
  /\ camFov = DEFAULT_FOV
  /\ isCapturing = FALSE
  /\ cameraAspect = MOUNT_ASPECT
  /\ skyVisible = TRUE
  /\ compositions = 0
  /\ initialPinchDistance = NoPinch
  /\ initialFovAtPinchStart = NoPinch
  /\ dynamicallyGeneratedBuildings = {}
  /\ generationTriggerPoints = << >>
  /\ activeClusterRequests = 0
  /\ nextClusterIdCounter = 0
  /\ group = << >>
  /\ batches = << >>
  /\ clock = 0
  /\ landscapeData = NullLandscape
  /\ lastRun = Ran({}, {}, FALSE, 0, FALSE)

\* the component driven through its props; the App around it stands still
Init ==
  /\ apiKey = TRUE
  /\ appLandscapeData = NullLandscape
  /\ isLoading = FALSE
  /\ error = NoError
  /\ appPhase = "idle"
  /\ calls = 0
  /\ failures = 0
  /\ submitted = JsonNull
  /\ verdict = "none"
  /\ isGenerating = FALSE
  /\ flash = NoFlash
  /\ mounted = TRUE
  /\ animationFrameId = TRUE
  /\ domElementAttached = TRUE
  /\ disposeCalls = << >>
  /\ Refs

(***************************************************************************)
(* GeometryBuilder: createOrUpdateLineSegments (lines 177-232)             *)
(***************************************************************************)
NoSegments == [uuid |-> -1]

\* the edge geometry built for an element (lines 178-190); a missing or zero
\* dimension is falsy and gives the 10 x 10 x 10 cube
EdgesGeometry(elementData) ==
  LET d == elementData.dimensions
  IN IF elementData.shape = "box" /\ d.width # 0 /\ d.height # 0 /\ d.depth # 0
       THEN [kind |-> "box", width |-> d.width, height |-> d.height, depth |-> d.depth,
             radius |-> 0, radialSegments |-> 0]
       ELSE IF elementData.shape = "cylinder" /\ d.radius # 0 /\ d.height # 0
         THEN [kind |-> "cylinder", width |-> 0, height |-> d.height, depth |-> 0,
               radius |-> d.radius, radialSegments |-> 16]
         ELSE [kind |-> "box", width |-> 100, height |-> 100, depth |-> 100,
               radius |-> 0, radialSegments |-> 0]

\* the object left at the element's base position
SegmentsPositionAtBase(elementData) ==
  Vec(elementData.position.x, elementData.position.y, elementData.position.z)

\* segments.position of a new object (line 218)
SegmentsPosition(elementData) ==
  Vec(elementData.position.x,
      elementData.position.y + elementData.dimensions.height \div 2,
      elementData.position.z)

createOrUpdateLineSegments(elementData, existingSegments, isDynamicFadeIn, uuid) ==
  LET fade == isDynamicFadeIn /\ mounted
  IN IF existingSegments # NoSegments
       THEN IF fade
         THEN [existingSegments EXCEPT
                 !.geometry = EdgesGeometry(elementData),
                 !.color = "city",
                 !.transparent = TRUE,
                 !.opacity = INITIAL_DYNAMIC_OPACITY,
                 !.userData.isDynamicallyGenerated = TRUE,
                 !.userData.isAppearing = TRUE,
                 !.userData.creationTime = clock]
         ELSE [existingSegments EXCEPT
                 !.geometry = EdgesGeometry(elementData),
                 !.color = "city",
                 !.opacity = OPACITY_ONE,
                 !.transparent = FALSE]
       ELSE [uuid |-> uuid,
             geometry |-> EdgesGeometry(elementData),
             color |-> "city",
             transparent |-> fade,
             opacity |-> IF fade THEN INITIAL_DYNAMIC_OPACITY ELSE OPACITY_ONE,
             position |-> SegmentsPosition(elementData),
             userData |-> [id |-> elementData.id,
                           height |-> elementData.dimensions.height,
                           isDynamicallyGenerated |-> fade,
                           isAppearing |-> fade,
                           creationTime |-> IF fade THEN clock ELSE 0]]

\* object identity: the i-th uuid not carried by an object of the group
FreshUuid(used, i, from) ==
  CHOOSE u \in from..(from + Cardinality(used) + i) :
    /\ u \notin used
    /\ Cardinality({ v \in from..u : v \notin used }) = i

UuidsOf(g) == { g[i].uuid : i \in 1..Len(g) }

(***************************************************************************)
(* imperative handle (lines 161-175)                                       *)
(***************************************************************************)
Clamp(v, lo, hi) == Max(lo, Min(hi, v))

\* The azimuth is a double: cameraAzimuthAngle * (pi/4) + azimuthRounding *
\* 2^-53, where pi/4 is the double Math.PI / 4 = QuarterTurn * 2^-53 with
\* QuarterTurn = 0x1921FB54442D18. Only QuarterTurn modulo 64 matters to the
\* rounding of a sum.
\* the spacing of the doubles around k eighths of a turn, in units of 2^-53:
\* |k| * pi/4 lies in [0.5, 1), [1, 2), [2, 4), [4, 8), [8, 16) or [16, 32)
Spacing(k) ==
  CASE Abs(k) <= 1 -> 1
    [] Abs(k) = 2 -> 2
    [] Abs(k) <= 5 -> 4
    [] Abs(k) <= 10 -> 8
    [] Abs(k) <= 20 -> 16
    [] OTHER -> 32

\* what round-to-nearest, ties-to-even adds to a magnitude whose residue
\* modulo twice the spacing g is low
RoundingOf(low, g) ==
  LET r == low % g
  IN IF 2 * r < g THEN -r
     ELSE IF 2 * r > g THEN g - r
     ELSE IF low >= g THEN g - r ELSE -r

\* a turn that adds pi/4 whatever the direction
TurnedRightOnly(azimuth, direction) ==
  [turns |-> azimuth.turns + 1, rounding |-> azimuth.rounding]

\* lines 163-168: azimuth -= turnAngle or azimuth += turnAngle in doubles;
\* direction is -1 (left) or 1 (right)
Turned(azimuth, direction) ==
  LET k == azimuth.turns + direction
      g == Spacing(k)
      magnitudeRounding == IF k > 0 THEN azimuth.rounding ELSE -azimuth.rounding
      low == (Abs(k) * QUARTER_TURN_LOW_BITS + magnitudeRounding) % (2 * g)
      adjust == RoundingOf(low, g)
  IN [turns |-> k,
      rounding |-> IF k = 0 THEN azimuth.rounding
                   ELSE IF k > 0 THEN azimuth.rounding + adjust
                   ELSE azimuth.rounding - adjust]

Azimuth == [turns |-> cameraAzimuthAngle, rounding |-> azimuthRounding]

\* turnViewDirection while the azimuth stays within limit eighths of a turn
turnWithin(direction, limit) ==
  /\ Abs(cameraAzimuthAngle + direction) <= limit
  /\ cameraAzimuthAngle' = Turned(Azimuth, direction).turns
  /\ azimuthRounding' = Turned(Azimuth, direction).rounding
  /\ lastRun' = Ran({}, {}, FALSE, 0, FALSE)
  /\ UNCHANGED << appVars, mountVars, cameraPosition, captureVars, fovVars, streamVars,
                  sceneVars, clock >>

\* turnViewDirection: direction is -1 (left) or 1 (right)
turnViewDirection(direction) == turnWithin(direction, MaxAzimuth)

(***************************************************************************)
(* RenderLoop and StreamingController: animate (lines 638-769)             *)
(***************************************************************************)
\* the camera stays within MaxTravel frames of its starting point
InTravel(pos) ==
  /\ Abs(pos.x) <= MaxTravel * HIGH_ANGLE_FORWARD_SPEED
  /\ Abs(pos.z - HIGH_ANGLE_INITIAL_CAMERA_Z) <= MaxTravel * HIGH_ANGLE_FORWARD_SPEED

\* the trigger test with the spacing loop left out
TriggerWithoutSpacing(pos, candidate, points) ==
  LengthSq(pos) >
    (GENERATION_TRIGGER_DISTANCE \div 2) * (GENERATION_TRIGGER_DISTANCE \div 2)

\* lines 680-698: triggerNewGeneration
TriggerNewGeneration(pos, candidate, points) ==
  IF Len(points) = 0
    THEN LengthSq(pos) >
           (GENERATION_TRIGGER_DISTANCE \div 2) * (GENERATION_TRIGGER_DISTANCE \div 2)
    ELSE \A i \in 1..Len(points) :
           ~DistanceToSquaredLess(candidate, points[i], MIN_DISTANCE_BETWEEN_TRIGGER_POINTS)

\* a guard that looks at the trigger only
MayIssueWhateverInFlight(trigger, active) == trigger

\* line 700: the guard of a new batch
MayIssue(trigger, active) == trigger /\ active < MAX_ACTIVE_CLUSTER_REQUESTS

\* lines 710-713: targetCenter of sub-cluster i (from 0) of n; the lateral
\* offset (i - (n - 1) / 2) * INTER_CLUSTER_SPACING is taken in halves
TargetCenter(base, az, i, n) ==
  AddScaledVector(base, RightDirection(az), (2 * i - (n - 1)) * (INTER_CLUSTER_SPACING \div 2))

Pending == [status |-> "pending", isNull |-> TRUE, value |-> << >>]

\* a batch whose requests all carry the counter value found at its start
NewBatchOfOnePrefix(base, az, n, counter) ==
  [baseSpawnPointAhead |-> base,
   targetCenters |-> [i \in 1..n |-> TargetCenter(base, az, i - 1, n)],
   prefixes |-> [i \in 1..n |-> counter],
   results |-> [i \in 1..n |-> Pending]]

\* lines 702-717: the promises of one batch with the point recorded for it,
\* their target centers and the counter values of their id prefixes
NewBatch(base, az, n, counter) ==
  [baseSpawnPointAhead |-> base,
   targetCenters |-> [i \in 1..n |-> TargetCenter(base, az, i - 1, n)],
   prefixes |-> [i \in 1..n |-> counter + i - 1],
   results |-> [i \in 1..n |-> Pending]]

\* lines 747-752: one element's fade-in step at clock reading now
FadeInStep(element, now) ==
  IF element.userData.isDynamicallyGenerated /\ element.userData.isAppearing
    THEN LET timeElapsed == now - element.userData.creationTime
             newOpacity == Min(OPACITY_ONE, (timeElapsed * OPACITY_ONE) \div FADE_IN_DURATION)
         IN [element EXCEPT !.opacity = newOpacity,
                            !.userData.isAppearing = ~(newOpacity >= OPACITY_ONE)]
    ELSE element

\* a frame that also waits for the requests in flight
FrameSkippedWhileRequesting == ~mounted \/ isCapturing \/ activeClusterRequests > 0

\* lines 640-642: the early returns of a frame
FrameSkipped == ~mounted \/ isCapturing

animate ==
  \* a frame callback runs when its request is due; line 639 requests the next
  /\ animationFrameId
  /\ IF FrameSkipped
    THEN /\ lastRun' = Ran({}, {}, FALSE, 0, FALSE)
         /\ UNCHANGED << appVars, mountVars, cameraVars, captureVars, fovVars, streamVars,
                         sceneVars, clock >>
    ELSE
      LET forwardDirection == ForwardDirection(cameraAzimuthAngle)
          pos == AddScaledVector(cameraPosition, forwardDirection, HIGH_ANGLE_FORWARD_SPEED)
          nextClusterPotentialCenter ==
            AddScaledVector(pos, forwardDirection, CLUSTER_SPAWN_AHEAD_OFFSET)
          trigger == TriggerNewGeneration(pos, nextClusterPotentialCenter,
                                          generationTriggerPoints)
      IN /\ InTravel(pos)
         /\ camFov' = IF Abs(camFov - cameraFov) > FOV_EPSILON THEN cameraFov ELSE camFov
         /\ cameraPosition' = pos
         /\ IF MayIssue(trigger, activeClusterRequests)
              THEN \E n \in 1..Min(MAX_RANDOM_CLUSTERS, MaxClustersPerBatch) :
                     /\ Len(batches) < MaxBatches
                     /\ nextClusterIdCounter + n <= MaxIssued
                     /\ activeClusterRequests' = activeClusterRequests + 1
                     /\ generationTriggerPoints' =
                          Append(generationTriggerPoints, nextClusterPotentialCenter)
                     /\ nextClusterIdCounter' = nextClusterIdCounter + n
                     /\ batches' = Append(batches,
                          NewBatch(nextClusterPotentialCenter, cameraAzimuthAngle, n,
                                   nextClusterIdCounter))
              ELSE UNCHANGED << generationTriggerPoints, activeClusterRequests,
                                nextClusterIdCounter, batches >>
         /\ group' = [i \in 1..Len(group) |-> FadeInStep(group[i], clock)]
         /\ lastRun' = Ran({}, {}, FALSE, 0, TRUE)
         /\ UNCHANGED << appVars, mountVars, cameraAzimuthAngle, azimuthRounding,
                         captureVars, cameraFov,
                         initialPinchDistance, initialFovAtPinchStart,
                         dynamicallyGeneratedBuildings, landscapeData, clock >>

(***************************************************************************)
(* Settlement of the cluster promises (lines 719-740)                      *)
(***************************************************************************)
\* the translation applied to x only
TranslatedAlongX(b_data, center) ==
  [b_data EXCEPT !.position.x = @ + center.x]

\* lines 726-727: the element translated to its sub-cluster's target center
Translated(b_data, center) ==
  [b_data EXCEPT !.position.x = @ + center.x, !.position.z = @ + center.z]

\* a merge that puts the new objects in place of the children
MergeClusterInPlaceOfChildren(g, value, center) ==
  [j \in 1..Len(value) |->
     createOrUpdateLineSegments(Translated(value[j], center), NoSegments, TRUE,
                                FreshUuid(UuidsOf(g), j, 0))]

\* lines 725-731 for one fulfilled result: the group with one new object per
\* element of value, in order; the j-th new object takes the j-th unused uuid
MergeCluster(g, value, center) ==
  CHOOSE merged \in
    { children \o
        [j \in 1..Len(value) |->
           createOrUpdateLineSegments(Translated(value[j], center), NoSegments, TRUE,
                                      FreshUuid(UuidsOf(children), j, 0))] :
      children \in {g} } : TRUE

\* a test that does not look at the group ref
MergesWithoutGroup(result) == result.status = "fulfilled" /\ result.isNull = FALSE

\* whether result i of a batch is merged (line 722)
Merges(result) == result.status = "fulfilled" /\ result.isNull = FALSE /\ mounted

\* the merge given up at the first result that is not a fulfilled list
RECURSIVE MergeUntilFailure(_, _, _)
MergeUntilFailure(g, batch, i) ==
  IF i > Len(batch.results) THEN g
  ELSE IF Merges(batch.results[i])
    THEN MergeUntilFailure(
           MergeCluster(g, batch.results[i].value, batch.targetCenters[i]), batch, i + 1)
    ELSE g

\* the merge guarded against a batch whose trigger point is no longer recorded
RECURSIVE MergeResultsUnlessStale(_, _, _)
MergeResultsUnlessStale(g, batch, i) ==
  IF i > Len(batch.results) THEN g
  ELSE IF \A p \in 1..Len(generationTriggerPoints) :
            generationTriggerPoints[p] # batch.baseSpawnPointAhead
    THEN g
    ELSE MergeResultsUnlessStale(
           IF Merges(batch.results[i])
             THEN MergeCluster(g, batch.results[i].value, batch.targetCenters[i])
             ELSE g,
           batch, i + 1)

\* lines 721-735: results.forEach over a settled batch, from index i on
RECURSIVE MergeResults(_, _, _)
MergeResults(g, batch, i) ==
  IF i > Len(batch.results) THEN g
  ELSE MergeResults(
         IF Merges(batch.results[i])
           THEN MergeCluster(g, batch.results[i].value, batch.targetCenters[i])
           ELSE g,
         batch, i + 1)

\* a merge that records no id
NoMergedIds(batch) == {}

\* the ids line 730 adds to the dynamic-id set
MergedIds(batch) ==
  UNION { { batch.results[i].value[j].id : j \in 1..Len(batch.results[i].value) } :
          i \in { r \in 1..Len(batch.results) : Merges(batch.results[r]) } }

\* a batch taken as settled as soon as one of its requests has settled
SettledByAny(batch) == \E i \in 1..Len(batch.results) : batch.results[i].status # "pending"

\* Promise.allSettled (line 719): every promise of the batch has settled
Settled(batch) == \A i \in 1..Len(batch.results) : batch.results[i].status # "pending"

RemoveAt(seq, b) == [i \in 1..(Len(seq) - 1) |-> IF i < b THEN seq[i] ELSE seq[i + 1]]

\* the value a generateBuildingCluster promise settles with
Result(outcome, prefix, k) ==
  [status |-> IF outcome = "rejected" THEN "rejected" ELSE "fulfilled",
   isNull |-> outcome # "fulfilled",
   value |-> IF outcome = "fulfilled" THEN ClusterResponse(prefix, k) ELSE << >>]

\* request i of batch b settles with result; when it is the batch's last one
\* the allSettled continuation runs: the merge, then the finally of line 739
settleWith(b, i, result) ==
  /\ b \in 1..Len(batches)
  /\ i \in 1..Len(batches[b].results)
  /\ batches[b].results[i].status = "pending"
  /\ LET batch == [batches[b] EXCEPT !.results[i] = result]
     IN IF Settled(batch)
          THEN LET merged == MergeResults(group, batch, 1)
               IN /\ group' = merged
                  /\ dynamicallyGeneratedBuildings' =
                       dynamicallyGeneratedBuildings \cup MergedIds(batch)
                  /\ activeClusterRequests' = activeClusterRequests - 1
                  /\ batches' = RemoveAt(batches, b)
                  /\ lastRun' = Ran({}, UuidsOf(merged) \ UuidsOf(group),
                                    FALSE, 0, FALSE)
          ELSE /\ batches' = [batches EXCEPT ![b] = batch]
               /\ lastRun' = Ran({}, {}, FALSE, 0, FALSE)
               /\ UNCHANGED << group, dynamicallyGeneratedBuildings, activeClusterRequests >>
  /\ UNCHANGED << appVars, mountVars, cameraVars, captureVars, fovVars, generationTriggerPoints,
                  nextClusterIdCounter, clock, landscapeData >>

\* request i of batch b settles with one of the outcomes of a promise
settleRequest(b, i, outcome, k) ==
  /\ b \in 1..Len(batches)
  /\ i \in 1..Len(batches[b].results)
  /\ settleWith(b, i, Result(outcome, batches[b].prefixes[i], k))

(***************************************************************************)
(* Landscape effect: full regeneration (lines 816-895)                     *)
(***************************************************************************)
\* a lookup that never finds the element
FindChildNever(g, id, i) == 0

\* index of the first child with userData.id = id, 0 when there is none
\* (group.children.find, line 861)
FindChild(g, id, i) ==
  IF \A k \in i..Len(g) : g[k].userData.id # id THEN 0
  ELSE CHOOSE k \in i..Len(g) :
         /\ g[k].userData.id = id
         /\ \A m \in i..(k - 1) : g[m].userData.id # id

\* the found element thrown away and a new object put in its place
ReplacedByNewObject(element, b_data) ==
  createOrUpdateLineSegments(b_data, NoSegments, FALSE, element.uuid + 1000)

\* lines 862-871: an element found in the group is refreshed in place
UpdatedInPlace(element, b_data) ==
  LET refreshed == createOrUpdateLineSegments(b_data, element, FALSE, element.uuid)
  IN [refreshed EXCEPT !.position = Vec(b_data.position.x,
                                          b_data.position.y + b_data.dimensions.height \div 2,
                                          b_data.position.z),
                       !.userData.height = b_data.dimensions.height,
                       !.userData.isDynamicallyGenerated = FALSE,
                       !.userData.isAppearing = FALSE]

\* lines 857-877: landscapeData.buildings.forEach from index i on; acc holds
\* the group and the uuids whose geometry was disposed or newly built; taken
\* are the uuids objects of this run must not reuse
RECURSIVE UpdateOrAdd(_, _, _, _, _)
UpdateOrAdd(acc, buildings, i, dynamicIds, taken) ==
  IF i > Len(buildings) THEN acc
  ELSE
    CHOOSE result \in
      { LET b_data == buildings[i]
            at == FindChild(a.g, b_data.id, 1)
            uuid == FreshUuid(taken \cup UuidsOf(a.g), 1, 0)
        IN UpdateOrAdd(
             IF b_data.id \in dynamicIds THEN a
             ELSE IF at # 0
               THEN [g |-> [a.g EXCEPT ![at] = UpdatedInPlace(a.g[at], b_data)],
                     disposed |-> a.disposed \cup {a.g[at].uuid},
                     created |-> a.created \cup {a.g[at].uuid}]
               ELSE [g |-> Append(a.g,
                             createOrUpdateLineSegments(b_data, NoSegments, FALSE, uuid)),
                     disposed |-> a.disposed,
                     created |-> a.created \cup {uuid}],
             buildings, i + 1, dynamicIds, taken) :
        a \in {acc} } : TRUE

BuildingIds(buildings) == { buildings[i].id : i \in 1..Len(buildings) }

\* the empty branch returning without removing anything
EmptyLandscapeChildrenKept(children) == children

\* lines 842-850: the children left by an empty (or null) Landscape
EmptyLandscapeChildren(children) == SelectSeq(children, LAMBDA c : FALSE)

\* the effect of [landscapeData, createOrUpdateLineSegments, cityColorTHREE]
\* run with the prop value L
landscapeEffect(L) ==
  /\ landscapeData' = L
  /\ IF ~mounted
       THEN /\ lastRun' = Ran({}, {}, FALSE, 0, FALSE)
            /\ UNCHANGED << group, streamVars >>
       ELSE
         LET clear == Cardinality(dynamicallyGeneratedBuildings) > 0
             IsDynamicChild(c) == c.userData.id \in dynamicallyGeneratedBuildings
             IsKept(c) == ~IsDynamicChild(c)
             \* 1. lines 821-837
             g1 == IF clear THEN SelectSeq(group, IsKept) ELSE group
             disposed1 == IF clear THEN UuidsOf(SelectSeq(group, IsDynamicChild)) ELSE {}
             dynamicIds1 == IF clear THEN {} ELSE dynamicallyGeneratedBuildings
             \* 2. lines 840-893
             empty == L.isNull \/ Len(L.buildings) = 0
             newInitialElementIds == BuildingIds(L.buildings)
             acc == UpdateOrAdd([g |-> g1, disposed |-> disposed1, created |-> {}],
                                L.buildings, 1, dynamicIds1, UuidsOf(group))
             IsStale(c) == ~c.userData.isDynamicallyGenerated
                             /\ c.userData.id \notin newInitialElementIds
             IsCurrent(c) == ~IsStale(c)
         IN /\ dynamicallyGeneratedBuildings' = dynamicIds1
            /\ IF clear
                 THEN /\ generationTriggerPoints' = << >>
                      /\ activeClusterRequests' = 0
                      /\ nextClusterIdCounter' = 0
                 ELSE UNCHANGED << generationTriggerPoints, activeClusterRequests,
                                   nextClusterIdCounter >>
            /\ IF empty
                 THEN /\ group' = EmptyLandscapeChildren(g1)
                      /\ lastRun' = Ran(disposed1 \cup UuidsOf(g1), {},
                                        FALSE, 0, FALSE)
                 ELSE /\ group' = SelectSeq(acc.g, IsCurrent)
                      /\ lastRun' = Ran(acc.disposed \cup UuidsOf(SelectSeq(acc.g, IsStale)),
                                        acc.created, FALSE, 0, FALSE)
            /\ UNCHANGED batches
  /\ UNCHANGED << appVars, mountVars, cameraVars, captureVars, fovVars, clock >>

(***************************************************************************)
(* SnapshotComposer: handleCanvasClickAndCapture (lines 235-488)           *)
(***************************************************************************)
\* lines 344-354: the opacity and transparency the finally step gives back
RestoredMaterial(element, now) ==
  IF element.userData.isDynamicallyGenerated /\ element.userData.isAppearing /\ mounted
    THEN [element EXCEPT
            !.opacity = Min(OPACITY_ONE,
                            ((now - element.userData.creationTime) * OPACITY_ONE)
                              \div FADE_IN_DURATION),
            !.transparent = TRUE]
    ELSE IF element.userData.isDynamicallyGenerated /\ ~element.userData.isAppearing
      THEN [element EXCEPT !.opacity = OPACITY_ONE, !.transparent = TRUE]
      ELSE [element EXCEPT !.opacity = OPACITY_ONE, !.transparent = FALSE]

\* how far the render phase gets: both passes, or a throw in pass A or B
RenderOutcomes == {"rendered", "throwsInPassA", "throwsInPassB"}

\* lines 247-266: what the handler saves before the try block
SavedOriginals(g) ==
  [skyVisible |-> skyVisible,
   aspect |-> cameraAspect,
   colors |-> [u \in UuidsOf(g) |-> g[CHOOSE i \in 1..Len(g) : g[i].uuid = u].color]]

\* lines 260-261 and 268-329: the scene as the try block leaves it, by return
\* or by a throw of the first or of the second render call
TryPhase(outcome, g) ==
  [aspect |-> SQUARE_ASPECT,
   skyVisible |-> FALSE,
   isCapturing |-> TRUE,
   threw |-> outcome # "rendered",
   children |-> [i \in 1..Len(g) |->
                   [g[i] EXCEPT !.opacity = OPACITY_ONE,
                                !.transparent = FALSE,
                                !.color = IF outcome = "throwsInPassA" THEN @ ELSE "white"]]]

\* a cleanup that only runs when the try block returned
CleanupUnlessThrown(saved, tried, now) ==
  IF tried.threw
    THEN [aspect |-> tried.aspect, skyVisible |-> tried.skyVisible,
          isCapturing |-> tried.isCapturing,
          children |-> tried.children]
    ELSE [aspect |-> saved.aspect, skyVisible |-> saved.skyVisible,
          isCapturing |-> FALSE,
          children |-> [i \in 1..Len(tried.children) |->
                          RestoredMaterial(
                            [tried.children[i] EXCEPT
                               !.color = saved.colors[tried.children[i].uuid]], now)]]

\* a cleanup that leaves the flag to the end of the composition
CleanupKeepsFlag(saved, tried, now) ==
  [aspect |-> saved.aspect,
   skyVisible |-> saved.skyVisible,
   isCapturing |-> tried.isCapturing,
   children |-> [i \in 1..Len(tried.children) |->
                   RestoredMaterial(
                     [tried.children[i] EXCEPT
                        !.color = IF tried.children[i].uuid \in DOMAIN saved.colors
                                    THEN saved.colors[tried.children[i].uuid]
                                    ELSE "city"], now)]]

\* lines 330-361: the finally block
FinallyPhase(saved, tried, now) ==
  [aspect |-> saved.aspect,
   skyVisible |-> saved.skyVisible,
   isCapturing |-> FALSE,
   children |-> [i \in 1..Len(tried.children) |->
                   RestoredMaterial(
                     [tried.children[i] EXCEPT
                        !.color = IF tried.children[i].uuid \in DOMAIN saved.colors
                                    THEN saved.colors[tried.children[i].uuid]
                                    ELSE "city"], now)]]

\* The handler up to its first await (line 367) runs without interruption:
\* the guards, the notification, the two passes and the finally step.
handleCanvasClickAndCapture(outcome) ==
  IF ~mounted \/ isCapturing
    THEN /\ lastRun' = Ran({}, {}, FALSE, 0, FALSE)
         /\ UNCHANGED << appVars, mountVars, cameraVars, captureVars, fovVars, streamVars,
                         sceneVars, clock >>
    ELSE
      LET saved == SavedOriginals(group)
          tried == TryPhase(outcome, group)
          restored == FinallyPhase(saved, tried, clock)
          passes == CASE outcome = "rendered" -> 2
                      [] outcome = "throwsInPassB" -> 1
                      [] OTHER -> 0
      IN /\ cameraAspect' = restored.aspect
         /\ group' = restored.children
         /\ skyVisible' = restored.skyVisible
         \* lines 240 and 360
         /\ isCapturing' = restored.isCapturing
         \* lines 363-378: the composition awaits the two images
         /\ compositions' = IF outcome = "rendered" THEN compositions + 1 ELSE compositions
         /\ compositions < MaxCompositions
         /\ lastRun' = Ran({}, {}, TRUE, passes, FALSE)
         /\ UNCHANGED << appVars, mountVars, cameraVars, fovVars, streamVars, landscapeData, clock >>

\* lines 366-486: the images load (or fail to) and the composition ends
compositionSettles ==
  /\ compositions > 0
  /\ compositions' = compositions - 1
  /\ lastRun' = Ran({}, {}, FALSE, 0, FALSE)
  /\ UNCHANGED << appVars, mountVars, cameraVars, isCapturing, cameraAspect, skyVisible, fovVars,
                  streamVars, sceneVars, clock >>

(***************************************************************************)
(* The clock (THREE.Clock over performance.now())                          *)
(***************************************************************************)
ClockSteps == {175}

clockAdvances(dt) ==
  /\ mounted
  /\ clock + dt <= MaxClock
  /\ clock' = clock + dt
  /\ UNCHANGED << appVars, mountVars, cameraVars, captureVars, fovVars, streamVars, sceneVars,
                  lastRun >>

(***************************************************************************)
(* InputController: zoom (lines 170-174, 490-496, 519-555)                 *)
(***************************************************************************)
\* the zoom applied without the limits
zoomCameraByFactorUnclamped(factor) ==
  IF ~mounted THEN cameraFov
  ELSE cameraFov + (DEFAULT_FOV * factor) \div 100

\* zoomCameraByFactor; factor in hundredths
zoomCameraByFactor(factor) ==
  IF ~mounted THEN cameraFov
  ELSE Clamp(cameraFov + (DEFAULT_FOV * factor) \div 100, MIN_FOV, MAX_FOV)

\* handleMouseWheel; sign is Math.sign(event.deltaY)
handleMouseWheel(sign) ==
  IF ~mounted THEN cameraFov
  ELSE Clamp(cameraFov + sign * FOV_STEP, MIN_FOV, MAX_FOV)

\* touchMoveHandler with two touches currentDistance apart and a pinch begun
PinchFov(currentDistance) ==
  IF initialPinchDistance = 0 THEN cameraFov
  ELSE Clamp((initialFovAtPinchStart * currentDistance) \div initialPinchDistance,
             MIN_FOV, MAX_FOV)

ZoomFactors == {-10000, -25, 25, 10000}

WheelSigns == {-1, 0, 1}

TouchDistances == {0, 100, 1000}

inputFrame ==
  UNCHANGED << appVars, mountVars, cameraVars, captureVars, camFov, streamVars, sceneVars, clock >>

zoomCamera(factor) ==
  /\ cameraFov' = zoomCameraByFactor(factor)
  /\ lastRun' = Ran({}, {}, FALSE, 0, FALSE)
  /\ UNCHANGED << initialPinchDistance, initialFovAtPinchStart >>
  /\ inputFrame

mouseWheel(sign) ==
  /\ cameraFov' = handleMouseWheel(sign)
  /\ lastRun' = Ran({}, {}, FALSE, 0, FALSE)
  /\ UNCHANGED << initialPinchDistance, initialFovAtPinchStart >>
  /\ inputFrame

\* touchStartHandler with `touches` fingers down, the first two distance apart
touchStartHandler(touches, distance) ==
  /\ IF touches = 2
       THEN /\ initialPinchDistance' = distance
            /\ initialFovAtPinchStart' = cameraFov
       ELSE IF touches = 1
         THEN /\ initialPinchDistance' = NoPinch
              /\ initialFovAtPinchStart' = NoPinch
         ELSE UNCHANGED << initialPinchDistance, initialFovAtPinchStart >>
  /\ lastRun' = Ran({}, {}, FALSE, 0, FALSE)
  /\ UNCHANGED cameraFov
  /\ inputFrame

touchMoveHandler(touches, distance) ==
  /\ cameraFov' =
       IF touches = 2 /\ initialPinchDistance # NoPinch /\ initialFovAtPinchStart # NoPinch
         THEN PinchFov(distance)
         ELSE cameraFov
  /\ lastRun' = Ran({}, {}, FALSE, 0, FALSE)
  /\ UNCHANGED << initialPinchDistance, initialFovAtPinchStart >>
  /\ inputFrame

\* touchEndHandler with `touches` fingers still down
touchEndHandler(touches) ==
  /\ IF touches < 2
       THEN /\ initialPinchDistance' = NoPinch
            /\ initialFovAtPinchStart' = NoPinch
       ELSE UNCHANGED << initialPinchDistance, initialFovAtPinchStart >>
  /\ lastRun' = Ran({}, {}, FALSE, 0, FALSE)
  /\ UNCHANGED cameraFov
  /\ inputFrame

(***************************************************************************)
(* App: the generator's answers (src/App.tsx)                              *)
(***************************************************************************)
\* an element as the generator writes it: the `type` field and an id of its
\* own (NoPrefix); every JSON value of the model is an object with numbers
\* where numbers belong, so the typeof tests of the validator are left out
Typed(building) == [type |-> "building"] @@ building

\* the ways one element of an answer breaks a constraint of the prompt
Defects == {"type", "id", "shape", "y", "height", "footprint"}

Defective(el, defect) ==
  CASE defect = "type" -> [el EXCEPT !.type = "road"]
    [] defect = "id" -> [el EXCEPT !.id.name = 0]
    [] defect = "shape" -> [el EXCEPT !.shape = "sphere"]
    [] defect = "y" -> [el EXCEPT !.position.y = 50]
    [] defect = "height" -> [el EXCEPT !.dimensions.height = 0]
    [] defect = "footprint" -> [el EXCEPT !.dimensions.width = 0, !.dimensions.radius = 0]
    [] OTHER -> el

\* lines 43-65; name 0 is the empty id
isValidBuildingElement(el) ==
  /\ el.id.name # 0
  /\ el.type = "building"
  /\ el.shape \in {"box", "cylinder"}
  /\ el.position.y = 0
  /\ el.dimensions.height > 0
  /\ el.shape = "box" => (el.dimensions.width > 0 /\ el.dimensions.depth > 0)
  /\ el.shape = "cylinder" => el.dimensions.radius > 0

\* the words the validator compares with
BuildingWord == << "b", "u", "i", "l", "d", "i", "n", "g" >>

BoxWord == << "b", "o", "x" >>

CylinderWord == << "c", "y", "l", "i", "n", "d", "e", "r" >>

\* a validator that does not look at the radius of a cylinder
isValidWithoutCylinderRule(el) ==
  /\ TypeOf(el) = "object" /\ el # JsonNull
  /\ TypeOf(el.o.id) = "string" /\ Trim(el.o.id.s) # << >>
  /\ el.o.type = JsonString(BuildingWord)
  /\ el.o.shape \in {JsonString(BoxWord), JsonString(CylinderWord)}
  /\ TypeOf(el.o.position) = "object" /\ el.o.position # JsonNull
  /\ TypeOf(el.o.position.o.x) = "number"
  /\ TypeOf(el.o.position.o.y) = "number"
  /\ TypeOf(el.o.position.o.z) = "number"
  /\ el.o.position.o.y.n = 0
  /\ TypeOf(el.o.dimensions) = "object" /\ el.o.dimensions # JsonNull
  /\ TypeOf(el.o.dimensions.o.height) = "number" /\ el.o.dimensions.o.height.n > 0
  /\ el.o.shape = JsonString(BoxWord) =>
       /\ TypeOf(el.o.dimensions.o.width) = "number" /\ el.o.dimensions.o.width.n > 0
       /\ TypeOf(el.o.dimensions.o.depth) = "number" /\ el.o.dimensions.o.depth.n > 0
  /\ el.o.orientationY # JsonUndefined => TypeOf(el.o.orientationY) = "number"

\* lines 42-65 on a parsed JSON value, one early return after the other
isValidBuildingElementOfJson(el) ==
  IF TypeOf(el) # "object" \/ el = JsonNull THEN FALSE
  ELSE IF TypeOf(el.o.id) # "string" THEN FALSE
  ELSE IF Trim(el.o.id.s) = << >> THEN FALSE
  ELSE IF el.o.type # JsonString(BuildingWord) THEN FALSE
  ELSE IF el.o.shape # JsonString(BoxWord) /\ el.o.shape # JsonString(CylinderWord) THEN FALSE
  ELSE IF TypeOf(el.o.position) # "object" \/ el.o.position = JsonNull THEN FALSE
  ELSE IF \/ TypeOf(el.o.position.o.x) # "number"
          \/ TypeOf(el.o.position.o.y) # "number"
          \/ TypeOf(el.o.position.o.z) # "number" THEN FALSE
  ELSE IF el.o.position.o.y.n # 0 THEN FALSE
  ELSE IF TypeOf(el.o.dimensions) # "object" \/ el.o.dimensions = JsonNull THEN FALSE
  ELSE IF TypeOf(el.o.dimensions.o.height) # "number" THEN FALSE
  ELSE IF el.o.dimensions.o.height.n <= 0 THEN FALSE
  ELSE IF /\ el.o.shape = JsonString(BoxWord)
          /\ \/ TypeOf(el.o.dimensions.o.width) # "number"
             \/ el.o.dimensions.o.width.n <= 0 THEN FALSE
  ELSE IF /\ el.o.shape = JsonString(BoxWord)
          /\ \/ TypeOf(el.o.dimensions.o.depth) # "number"
             \/ el.o.dimensions.o.depth.n <= 0 THEN FALSE
  ELSE IF /\ el.o.shape = JsonString(CylinderWord)
          /\ \/ TypeOf(el.o.dimensions.o.radius) # "number"
             \/ el.o.dimensions.o.radius.n <= 0 THEN FALSE
  ELSE IF el.o.orientationY # JsonUndefined /\ TypeOf(el.o.orientationY) # "number" THEN FALSE
  ELSE TRUE

\* the values an element of a parsed answer can be
JsonIds ==
  { JsonUndefined, JsonNumber(7), JsonString(<< >>), JsonString(<< " ", " " >>),
    JsonString(<< " ", "b", "1" >>) }

JsonTypes == { JsonUndefined, JsonString(BuildingWord), JsonString(<< "r", "o", "a", "d" >>) }

JsonShapes ==
  { JsonUndefined, JsonString(BoxWord), JsonString(CylinderWord),
    JsonString(<< "s", "p", "h", "e", "r", "e" >>) }

JsonPositions ==
  { JsonNull, JsonUndefined } \cup
  { JsonObject([x |-> x, y |-> y, z |-> JsonNumber(-20)]) :
      x \in { JsonNumber(15), JsonString(<< "1", "5" >>) },
      y \in { JsonNumber(0), JsonNumber(50), JsonUndefined } }

JsonDimensions ==
  { JsonNull } \cup
  { JsonObject([height |-> h, width |-> w, depth |-> d, radius |-> r]) :
      h \in { JsonNumber(40), JsonNumber(0), JsonUndefined },
      w \in { JsonNumber(10), JsonNumber(-10), JsonUndefined },
      d \in { JsonNumber(10), JsonNumber(0) },
      r \in { JsonNumber(5), JsonNumber(0), JsonUndefined } }

JsonOrientations ==
  { JsonUndefined, JsonNull, JsonNumber(90), JsonString(<< "9", "0" >>) }

JsonElements ==
  { JsonNull, JsonNumber(1), JsonString(BoxWord) } \cup
  { JsonObject([id |-> id, type |-> type, shape |-> shape, position |-> position,
                dimensions |-> dimensions, orientationY |-> orientationY]) :
      id \in JsonIds, type \in JsonTypes, shape \in JsonShapes,
      position \in JsonPositions, dimensions \in JsonDimensions,
      orientationY \in JsonOrientations }

\* every(isValidBuildingElement) reaching one element (lines 165, 285)
validates ==
  /\ verdict = "none"
  /\ verdict' = IF isValidBuildingElementOfJson(submitted) THEN "accepted" ELSE "rejected"
  /\ UNCHANGED << apiKey, appLandscapeData, isLoading, error, appPhase, calls, failures,
                  submitted, isGenerating, flash, mountVars, cameraVars, captureVars, fovVars, streamVars,
                  sceneVars, clock, lastRun >>

\* what ai.models.generateContent gives: it throws, or its text does not
\* parse, or it parses to a value
Throws(message) == [kind |-> "throws", message |-> message]

Unparseable == [kind |-> "text", parses |-> FALSE]

Parsed(value) == [kind |-> "text", parses |-> TRUE, value |-> value]

JsonArray(elements) == [isArray |-> TRUE, elements |-> elements]

NotAnArray == [isArray |-> FALSE, elements |-> << >>]

\* k elements, the last one with a defect
WithDefect(elements, defect) ==
  [elements EXCEPT ![Len(elements)] = Defective(@, defect)]

RawCluster(k) == [i \in 1..k |-> Typed(ClusterBuilding(NoPrefix, i))]

ClusterAnswerSizes == {4, 5, 8, 9}

ClusterAnswers ==
  { Throws("request failed"), Unparseable, Parsed(NotAnArray) }
    \cup { Parsed(JsonArray(RawCluster(k))) : k \in ClusterAnswerSizes }
    \cup { Parsed(JsonArray(WithDefect(RawCluster(5), defect))) : defect \in Defects }

\* what generateBuildingCluster returns: null or a list
NullList == [isNull |-> TRUE, value |-> << >>]

List(value) == [isNull |-> FALSE, value |-> value]

\* lines 286-289: the id takes the cluster prefix
Prefixed(b, clusterIdPrefix) == [b EXCEPT !.id.prefix = clusterIdPrefix]

\* the valid elements kept and the others dropped
generateClusterOfValidElements(clusterIdPrefix, answer) ==
  IF ~apiKey \/ answer.kind = "throws" THEN NullList
  ELSE IF ~answer.parses THEN NullList
  ELSE List([j \in 1..Len(SelectSeq(answer.value.elements, isValidBuildingElement)) |->
               Prefixed(SelectSeq(answer.value.elements, isValidBuildingElement)[j],
                        clusterIdPrefix)])

\* lines 207-307: generateBuildingCluster(clusterIdPrefix) once its request
\* has been answered
generateBuildingCluster(clusterIdPrefix, answer) ==
  IF ~apiKey THEN NullList
  ELSE IF answer.kind = "throws" THEN NullList
  ELSE IF ~answer.parses THEN NullList
  ELSE LET parsedClusterData == answer.value
       IN IF /\ parsedClusterData.isArray
             /\ Len(parsedClusterData.elements) >= 5
             /\ Len(parsedClusterData.elements) <= 8
             /\ \A j \in 1..Len(parsedClusterData.elements) :
                  isValidBuildingElement(parsedClusterData.elements[j])
            THEN List([j \in 1..Len(parsedClusterData.elements) |->
                         Prefixed(parsedClusterData.elements[j], clusterIdPrefix)])
            ELSE NullList

\* the promise of line 711 settled: an async function that catches every
\* throw fulfils; answer keeps what the value was computed from
ClusterPromise(list, answer) ==
  [status |-> "fulfilled", isNull |-> list.isNull, value |-> list.value,
   answer |-> IF apiKey THEN answer ELSE Throws("no request")]

settleResponse(b, i, answer) ==
  /\ b \in 1..Len(batches)
  /\ i \in 1..Len(batches[b].results)
  /\ settleWith(b, i, ClusterPromise(
                        generateBuildingCluster(batches[b].prefixes[i], answer), answer))

(***************************************************************************)
(* App: generateNewLandscape (src/App.tsx lines 72-205)                    *)
(***************************************************************************)
\* the sky of an answer: absent, or present with the types of its two colors
Sky(top, horizon) == [present |-> TRUE, topColor |-> top, horizonColor |-> horizon]

NoSky == [present |-> FALSE, topColor |-> "undefined", horizonColor |-> "undefined"]

LandscapeJson(sky, buildings) == [sky |-> sky, buildings |-> buildings]

RawBuilding(i) ==
  Typed(IF i % 2 = 0
          THEN Cylinder(ElementId(NoPrefix, i), 60 * i - 1500, 700 - 100 * i, 30 + 4 * i,
                        100 + 30 * i)
          ELSE Box(ElementId(NoPrefix, i), 60 * i - 1500, 700 - 100 * i, 50 + 8 * i,
                   100 + 30 * i, 50 + 6 * i))

RawBuildings(k) == [i \in 1..k |-> RawBuilding(i)]

LandscapeAnswerSizes == {minBuildings - 1, minBuildings, maxBuildings, maxBuildings + 1}

LandscapeAnswers ==
  { Throws("request failed"), Throws("API key not valid"), Unparseable,
    Parsed(LandscapeJson(Sky("string", "string"), NotAnArray)),
    Parsed(LandscapeJson(NoSky, JsonArray(RawBuildings(minBuildings)))),
    Parsed(LandscapeJson(Sky("number", "string"), JsonArray(RawBuildings(minBuildings)))),
    Parsed(LandscapeJson(Sky("string", "undefined"), JsonArray(RawBuildings(minBuildings)))) }
    \cup { Parsed(LandscapeJson(Sky("string", "string"), JsonArray(RawBuildings(k)))) :
             k \in LandscapeAnswerSizes }
    \cup { Parsed(LandscapeJson(Sky("string", "string"),
                                JsonArray(WithDefect(RawBuildings(minBuildings), defect)))) :
             defect \in Defects }

\* the test without its last conjunct
ValidLandscapeWhateverTheBuildings(parsedData) ==
  /\ parsedData.sky.present
  /\ parsedData.sky.topColor = "string"
  /\ parsedData.sky.horizonColor = "string"
  /\ parsedData.buildings.isArray
  /\ Len(parsedData.buildings.elements) >= minBuildings
  /\ Len(parsedData.buildings.elements) <= maxBuildings

\* lines 158-166: the test that lets parsedData in
ValidLandscape(parsedData) ==
  /\ parsedData.sky.present
  /\ parsedData.sky.topColor = "string"
  /\ parsedData.sky.horizonColor = "string"
  /\ parsedData.buildings.isArray
  /\ Len(parsedData.buildings.elements) >= minBuildings
  /\ Len(parsedData.buildings.elements) <= maxBuildings
  /\ \A j \in 1..Len(parsedData.buildings.elements) :
       isValidBuildingElement(parsedData.buildings.elements[j])

\* parsedData as LandscapeData (line 167)
AsLandscapeData(parsedData) ==
  [isNull |-> FALSE, buildings |-> parsedData.buildings.elements, sky |-> parsedData.sky]

\* lines 170-183: the sentences appended to errorDetail
errorDetail(parsedData) ==
  (IF ~parsedData.sky.present
        \/ parsedData.sky.topColor = "undefined"
        \/ parsedData.sky.horizonColor = "undefined"
     THEN {"Missing or invalid sky data."} ELSE {})
  \cup
  (IF ~parsedData.buildings.isArray
        \/ Len(parsedData.buildings.elements) < minBuildings
        \/ Len(parsedData.buildings.elements) > maxBuildings
     THEN {"Buildings array issue"}
     ELSE IF \E j \in 1..Len(parsedData.buildings.elements) :
               ~isValidBuildingElement(parsedData.buildings.elements[j])
       THEN {"Invalid building element structure."}
       ELSE {})

\* an Error: its message and the sentences of detail the message carries
Thrown(message, details) == [message |-> message, details |-> details]

\* lines 186-190: whatever the inner try threw is logged and replaced by an
\* Error whose message is this sentence and the raw text of the answer
InnerCatch(e) ==
  Thrown("Failed to parse landscape data from API. Invalid JSON structure.", {})

\* lines 152-190: the inner try with its catch; what it throws on, if anything
InnerTry(answer) ==
  IF ~answer.parses
    THEN [threw |-> TRUE, err |-> InnerCatch(Thrown("SyntaxError", {}))]
    ELSE IF ValidLandscape(answer.value)
      THEN [threw |-> FALSE, err |-> Thrown("", {})]
      ELSE [threw |-> TRUE,
            err |-> InnerCatch(
                      Thrown("Parsed JSON data is not in the expected LandscapeData format.",
                             errorDetail(answer.value)))]

\* lines 192-199: the message the outer catch sets
OuterCatch(err) ==
  IF err.message = "API key not valid"
    THEN ErrorMessage(<<"API Key is not valid. Please check your configuration.">>, {})
    ELSE ErrorMessage(<<"Error: ", err.message>>, err.details)

\* the earlier error left in place when a call starts
ErrorKept(err) == err

\* line 81: setError(null)
ErrorAtStart(err) == NoError

\* line 821 of MonitorScreen.tsx: ThreeCityscape is rendered
Displayed(loading, err) ==
  ~loading /\ (err.isNull \/ err.text = <<"API_KEY is missing. Cannot generate landscape data.">>)

(***************************************************************************)
(* Teardown: the cleanup of the setup effect (lines 773-810)               *)
(***************************************************************************)
DisposeCall(target, uuid, part) == [target |-> target, uuid |-> uuid, part |-> part]

\* a cleanup that leaves the requested frame alone
FrameLeftDue(due) == due

\* line 774: the frame named by animationFrameIdRef is no longer due
cancelAnimationFrame(due) == FALSE

\* a traversal that disposes the geometries only
SceneGeometryDisposals(g) ==
  << DisposeCall("sky", -1, "geometry") >> \o
  [n \in 1..Len(g) |-> DisposeCall("element", g[n].uuid, "geometry")]

\* lines 792-803: scene.traverse visits the sky mesh, the group and each of
\* its children once; a Mesh or LineSegments has its geometry and then its
\* material disposed
SceneDisposals(g) ==
  << DisposeCall("sky", -1, "geometry"), DisposeCall("sky", -1, "material") >> \o
  [n \in 1..(2 * Len(g)) |->
     DisposeCall("element", g[(n + 1) \div 2].uuid,
                 IF n % 2 = 1 THEN "geometry" ELSE "material")]

\* lines 786-803 with the refs set: the renderer, then the scene
TeardownDisposals(g) == << DisposeCall("renderer", -1, "renderer") >> \o SceneDisposals(g)

\* the cleanup function; run again it finds rendererRef and sceneRef null
teardown ==
  /\ animationFrameId' = cancelAnimationFrame(animationFrameId)
  /\ IF mounted
       THEN /\ disposeCalls' = TeardownDisposals(group)
            /\ domElementAttached' = FALSE
            /\ lastRun' = Ran(UuidsOf(group), {}, FALSE, 0, FALSE)
       ELSE /\ disposeCalls' = << >>
            /\ lastRun' = Ran({}, {}, FALSE, 0, FALSE)
            /\ UNCHANGED domElementAttached
  \* lines 804-809
  /\ mounted' = FALSE
  /\ UNCHANGED << appVars, cameraVars, captureVars, fovVars, streamVars, sceneVars, clock >>

\* ThreeCityscape mounted anew (m) or unmounted (lines 773-810): the refs are
\* those of the new instance; the promises of an instance that went away
\* find its refs null and touch nothing of the new one
Remount(m) ==
  /\ mounted' = m
  /\ animationFrameId' = m
  /\ domElementAttached' = m
  /\ disposeCalls' = IF mounted /\ ~m THEN TeardownDisposals(group) ELSE << >>
  /\ cameraPosition' = Vec(0, HIGH_ANGLE_INITIAL_CAMERA_Y, HIGH_ANGLE_INITIAL_CAMERA_Z)
  /\ cameraAzimuthAngle' = 0
  /\ azimuthRounding' = 0
  /\ cameraFov' = DEFAULT_FOV
  /\ camFov' = DEFAULT_FOV
  /\ isCapturing' = FALSE
  /\ cameraAspect' = MOUNT_ASPECT
  /\ skyVisible' = TRUE
  /\ compositions' = 0
  /\ initialPinchDistance' = NoPinch
  /\ initialFovAtPinchStart' = NoPinch
  /\ dynamicallyGeneratedBuildings' = {}
  /\ generationTriggerPoints' = << >>
  /\ activeClusterRequests' = 0
  /\ nextClusterIdCounter' = 0
  /\ group' = << >>
  /\ batches' = << >>
  /\ clock' = 0
  /\ landscapeData' = NullLandscape
  /\ lastRun' = Ran({}, {}, FALSE, 0, FALSE)

\* generateNewLandscape up to its await: the mount effect of lines 311-313, or
\* the GENERATE button, which MonitorScreen lets through only when no
\* call is under way and a key is set (lines 150, 438, 478, 552). The
\* caller leaves MonitorScreen's flash state as flashAfter; the render that
\* follows passes isLoading as the isGenerating prop (line 326)
generateNewLandscapeFlashing(flashAfter) ==
  /\ appPhase = "starting" \/ (appPhase = "idle" /\ ~isLoading /\ apiKey)
  /\ calls < MaxCalls
  /\ calls' = calls + 1
  /\ flash' = flashAfter
  /\ UNCHANGED << apiKey, submitted, verdict >>
  /\ IF ~apiKey
       THEN \* lines 73-78
            /\ error' = ErrorMessage(<<"API_KEY is missing. Cannot generate landscape data.">>, {})
            /\ isLoading' = FALSE
            /\ appLandscapeData' = NullLandscape
            /\ appPhase' = "idle"
            /\ failures' = failures + 1
       ELSE \* lines 79-81
            /\ isLoading' = TRUE
            /\ error' = ErrorAtStart(error)
            /\ appPhase' = "requesting"
            /\ UNCHANGED << appLandscapeData, failures >>
  /\ isGenerating' = isLoading'
  /\ Remount(Displayed(isLoading', error'))

\* generateNewLandscape called with no flash triggered
generateNewLandscape == generateNewLandscapeFlashing(flash)

\* the rest of generateNewLandscape once its request has been answered
\* (lines 136-204)
landscapeResponse(answer) ==
  /\ appPhase = "requesting"
  /\ LET tried == IF answer.kind = "throws"
                    THEN [threw |-> TRUE, err |-> Thrown(answer.message, {})]
                    ELSE InnerTry(answer)
     IN /\ IF tried.threw
             THEN /\ error' = OuterCatch(tried.err)
                  /\ appLandscapeData' = NullLandscape
                  /\ failures' = failures + 1
             ELSE /\ appLandscapeData' = AsLandscapeData(answer.value)
                  /\ UNCHANGED << error, failures >>
        \* line 203
        /\ isLoading' = FALSE
  /\ isGenerating' = isLoading'
  /\ appPhase' = "idle"
  /\ UNCHANGED << apiKey, calls, submitted, verdict, flash >>
  /\ Remount(Displayed(isLoading', error'))

(***************************************************************************)
(* MonitorScreen: the buttons of the system menu                           *)
(* (src/components/MonitorScreen.tsx lines 150, 307-419, 432-471, 510-765) *)
(***************************************************************************)
\* the buttons that reach App or ThreeCityscape (lines 570, 696, 726, 756)
ButtonIds == {"generate", "xAxisA", "yAxisB", "zoomLvl"}

\* buttons held back only while no key is set
baseButtonDisabledWithoutKey == ~apiKey

\* line 150, with canGenerate = !!process.env.API_KEY (App.tsx line 327)
baseButtonDisabled == isGenerating \/ ~apiKey

\* line 510
generateButtonHtmlDisabled == ~apiKey /\ ~isGenerating

\* the disabled attribute of a button (lines 572, 705, 735, 764)
HtmlDisabled(buttonId) ==
  IF buttonId = "generate" THEN generateButtonHtmlDisabled ELSE baseButtonDisabled

\* triggerFlash (lines 307-419) for the types these buttons give: it clears
\* the timeouts, and then 'xAxisA' and 'yAxisB' show the full-screen static
\* and wait for its timeout, 'generic' flashes at once and waits for the
\* flash timeout; isStaticFlashingFullScreen is not reset at the start
triggerFlash(type) ==
  IF type \in {"xAxisA", "yAxisB"}
    THEN [type |-> type, isFlashing |-> FALSE, activeFlashType |-> "null",
          isStaticFlashingFullScreen |-> TRUE, timeout |-> "static"]
    ELSE [type |-> type, isFlashing |-> TRUE, activeFlashType |-> type,
          isStaticFlashingFullScreen |-> flash.isStaticFlashingFullScreen,
          timeout |-> "flash"]

\* the timeout callbacks of triggerFlash (lines 332-333, 387-393, 410-415)
flashTimeout ==
  /\ flash.timeout # "none"
  /\ flash' = IF flash.timeout = "static"
                THEN [flash EXCEPT !.isStaticFlashingFullScreen = FALSE,
                                   !.isFlashing = TRUE,
                                   !.activeFlashType = "generic",
                                   !.timeout = "flash"]
                ELSE [flash EXCEPT !.isFlashing = FALSE,
                                   !.activeFlashType = "null",
                                   !.timeout = "none"]
  /\ UNCHANGED << apiKey, appLandscapeData, isLoading, error, appPhase, calls, failures,
                  submitted, verdict, isGenerating, mountVars, cameraVars, captureVars,
                  fovVars, streamVars, sceneVars, clock, lastRun >>

\* a press that returns before its action and without a flash
pressIgnored == UNCHANGED vars

\* threeCityscapeRef.current?.turnViewDirection (lines 699, 729) after
\* triggerFlash(type): the ref is null while ThreeCityscape is not rendered
turnPressed(type, direction) ==
  /\ flash' = triggerFlash(type)
  /\ IF mounted
       THEN /\ Abs(cameraAzimuthAngle + direction) <= MaxAzimuth
            /\ cameraAzimuthAngle' = Turned(Azimuth, direction).turns
            /\ azimuthRounding' = Turned(Azimuth, direction).rounding
            /\ lastRun' = Ran({}, {}, FALSE, 0, FALSE)
       ELSE UNCHANGED << cameraAzimuthAngle, azimuthRounding, lastRun >>
  /\ UNCHANGED << apiKey, appLandscapeData, isLoading, error, appPhase, calls, failures,
                  submitted, verdict, isGenerating, mountVars, cameraPosition, captureVars,
                  fovVars, streamVars, sceneVars, clock >>

\* threeCityscapeRef.current?.zoomCameraByFactor(0.25) (line 759); the zoom
\* button triggers no flash
zoomPressed ==
  /\ cameraFov' = zoomCameraByFactor(25)
  /\ lastRun' = IF mounted THEN Ran({}, {}, FALSE, 0, FALSE) ELSE lastRun
  /\ UNCHANGED << appVars, mountVars, cameraVars, captureVars, camFov,
                  initialPinchDistance, initialFovAtPinchStart, streamVars, sceneVars,
                  clock >>

\* handleGenericButtonPress (lines 432-471) with the action and flash type
\* the button gives it
handleGenericButtonPress(buttonId) ==
  IF buttonId = "generate" /\ isGenerating
    THEN \* lines 438-441
         /\ flash' = triggerFlash("generic")
         /\ UNCHANGED << apiKey, appLandscapeData, isLoading, error, appPhase, calls,
                         failures, submitted, verdict, isGenerating, mountVars, cameraVars,
                         captureVars, fovVars, streamVars, sceneVars, clock, lastRun >>
    ELSE IF buttonId = "zoomLvl"
      THEN \* lines 443-448
           IF ~baseButtonDisabled THEN zoomPressed ELSE pressIgnored
      ELSE IF baseButtonDisabled
        THEN \* line 450
             pressIgnored
        ELSE \* lines 452-470
             IF buttonId = "generate"
               THEN generateNewLandscapeFlashing(triggerFlash("generic"))
               ELSE turnPressed(buttonId, IF buttonId = "xAxisA" THEN -1 ELSE 1)

\* a click on a button of the menu: the menu is rendered while isLoading is
\* false (line 552), and a disabled button gives no click
buttonClicked(buttonId) ==
  /\ ~isLoading
  /\ ~HtmlDisabled(buttonId)
  /\ handleGenericButtonPress(buttonId)

\* MonitorScreen rendered with an isGenerating prop of its parent's choice
\* (lines 140-149: isGenerating and isLoading are separate props)
monitorRendered(generating) ==
  /\ isGenerating' = generating
  /\ UNCHANGED << apiKey, appLandscapeData, isLoading, error, appPhase, calls, failures,
                  submitted, verdict, flash, mountVars, cameraVars, captureVars,
                  fovVars, streamVars, sceneVars, clock, lastRun >>

(***************************************************************************)
(* Specifications                                                          *)
(***************************************************************************)
Frame == animate

Turn == \E direction \in {-1, 1} : turnViewDirection(direction)

SettleOf(outcomes, sizes) ==
  \E b \in 1..Len(batches) : \E i \in 1..MaxClustersPerBatch :
    \E outcome \in outcomes : \E k \in sizes : settleRequest(b, i, outcome, k)

RegenerateTo(landscapes) == \E L \in landscapes : landscapeEffect(L)

Capture == \E outcome \in RenderOutcomes : handleCanvasClickAndCapture(outcome)

Tock == \E dt \in ClockSteps : clockAdvances(dt)

Zoom == \E factor \in ZoomFactors : zoomCamera(factor)

Wheel == \E sign \in WheelSigns : mouseWheel(sign)

TouchStart == \E touches \in 1..3 : \E d \in TouchDistances : touchStartHandler(touches, d)

TouchMove == \E touches \in 1..2 : \E d \in TouchDistances : touchMoveHandler(touches, d)

TouchEnd == \E touches \in 0..2 : touchEndHandler(touches)

\* The streaming engine: frames, turns, settlements and regenerations.
StreamLandscapes == { NullLandscape, Landscape(<<BuildingA, BuildingB>>) }

StreamSizes == {6}

Settle == SettleOf(Outcomes, StreamSizes)

Regenerate == RegenerateTo(StreamLandscapes)

Next == Frame \/ Turn \/ Settle \/ Regenerate

Spec == Init /\ [][Next]_vars

\* The scene: every Landscape, merged while clusters stream in straight ahead.
Reconcile == RegenerateTo(Landscapes)

SceneSettle == SettleOf(Outcomes, ClusterSizes)

NextScene == Frame \/ SceneSettle \/ Reconcile

SpecScene == Init /\ [][NextScene]_vars

\* Turning, as far as MaxTurns eighths to either side, and the zoom buttons.
TurnFar == \E direction \in {-1, 1} : turnWithin(direction, MaxTurns)

NextTurn == TurnFar \/ Zoom

SpecTurn == Init /\ [][NextTurn]_vars

\* The cityscape until it is unmounted, and what still runs afterwards.
Teardown == teardown

\* React runs the Landscape effect of a mounted component only
LiveRegenerate == mounted /\ Regenerate

NextTeardown == Frame \/ Settle \/ LiveRegenerate \/ Teardown

SpecTeardown == Init /\ [][NextTeardown]_vars

\* The zoom inputs.
NextFov == Zoom \/ Wheel \/ TouchStart \/ TouchMove \/ TouchEnd

SpecFov == Init /\ [][NextFov]_vars

\* Zooming while the frames run.
NextZoomFrames == Frame \/ Zoom \/ Wheel

SpecZoomFrames == Init /\ [][NextZoomFrames]_vars

\* The world between and across Landscape changes: frames, settlements,
\* captures, zoom commands and regenerations.
NextWorld == Frame \/ Settle \/ Regenerate \/ Capture \/ compositionSettles \/ Zoom

SpecWorld == Init /\ [][NextWorld]_vars

\* The validator on every element of JsonElements.
InitValidator ==
  /\ apiKey = TRUE
  /\ appLandscapeData = NullLandscape
  /\ isLoading = FALSE
  /\ error = NoError
  /\ appPhase = "idle"
  /\ calls = 0
  /\ failures = 0
  /\ submitted \in JsonElements
  /\ verdict = "none"
  /\ isGenerating = FALSE
  /\ flash = NoFlash
  /\ mounted = FALSE
  /\ animationFrameId = FALSE
  /\ domElementAttached = FALSE
  /\ disposeCalls = << >>
  /\ Refs

NextValidator == validates

SpecValidator == InitValidator /\ [][NextValidator]_vars

\* Fade-in: frames, settlements, captures and the clock.
FadeSettle == SettleOf({"fulfilled"}, {5})

NextFade == Frame \/ Turn \/ FadeSettle \/ Capture \/ compositionSettles \/ Tock

SpecFade == Init /\ [][NextFade]_vars

\* streaming without a Landscape change; a generateBuildingCluster promise
\* always settles (the async function returns from every path), so a pending
\* request is eventually taken
NextStream == Frame \/ Turn \/ Settle

SpecStream == Init /\ [][NextStream]_vars /\ WF_vars(Settle)

\* The App: landscape calls, and the cityscape while it is displayed. The
\* landscape effect runs once the prop it was mounted with is in.
InitApp ==
  /\ apiKey \in BOOLEAN
  /\ appLandscapeData = NullLandscape
  /\ isLoading = TRUE
  /\ error = NoError
  /\ appPhase = "starting"
  /\ calls = 0
  /\ failures = 0
  /\ submitted = JsonNull
  /\ verdict = "none"
  /\ isGenerating = TRUE
  /\ flash = NoFlash
  /\ mounted = FALSE
  /\ animationFrameId = FALSE
  /\ domElementAttached = FALSE
  /\ disposeCalls = << >>
  /\ Refs

AppGenerate == generateNewLandscape

AppResponse == \E answer \in LandscapeAnswers : landscapeResponse(answer)

AppEffect ==
  /\ mounted
  /\ landscapeData # appLandscapeData
  /\ landscapeEffect(appLandscapeData)

AppFrame ==
  /\ mounted
  /\ landscapeData = appLandscapeData
  /\ animate

AppSettle ==
  /\ mounted
  /\ landscapeData = appLandscapeData
  /\ \E b \in 1..Len(batches) : \E i \in 1..MaxClustersPerBatch :
       \E answer \in ClusterAnswers : settleResponse(b, i, answer)

NextApp == AppGenerate \/ AppResponse \/ AppEffect \/ AppFrame \/ AppSettle

SpecApp == InitApp /\ [][NextApp]_vars

\* the App with its mount effect run and every request answered or failed
MountCall == appPhase = "starting" /\ generateNewLandscape

SpecAppAnswered ==
  InitApp /\ [][NextApp]_vars /\ WF_vars(MountCall) /\ WF_vars(AppResponse)

\* MonitorScreen under the App: the mount call, the answers, the clicks on
\* the menu, the flash timeouts, and renders with either isGenerating prop.
Click == \E buttonId \in ButtonIds : buttonClicked(buttonId)

MonitorRender == \E generating \in BOOLEAN : monitorRendered(generating)

NextMonitor == MountCall \/ AppResponse \/ Click \/ flashTimeout \/ MonitorRender

SpecMonitor == InitApp /\ [][NextMonitor]_vars

(***************************************************************************)
(* Claims                                                                  *)
(***************************************************************************)
\* C1: in every reachable state at most one generation batch is in flight
\* (issued by a frame and not yet fully settled).
C1_AtMostOneBatchInFlight == Len(batches) <= 1

\* C2: any two TriggerPoints in the list at the same time are at least
\* MIN_DISTANCE_BETWEEN_TRIGGER_POINTS apart.
C2_TriggerSpacing ==
  \A i, j \in 1..Len(generationTriggerPoints) :
    i < j => ~DistanceToSquaredLess(generationTriggerPoints[i], generationTriggerPoints[j],
                                    MIN_DISTANCE_BETWEEN_TRIGGER_POINTS)

\* two points are recorded, the second after the first batch settled
C2_Witness == Len(generationTriggerPoints) >= 2

\* C10: after every Landscape change the TriggerPoint list is empty, the
\* in-flight counter is 0 and the cluster-id counter is 0.
C10_RegenerationResetsBookkeeping ==
  [][ (\E L \in Landscapes : landscapeEffect(L)) =>
        /\ generationTriggerPoints' = << >>
        /\ activeClusterRequests' = 0
        /\ nextClusterIdCounter' = 0 ]_vars

\* C3: between two consecutive states a streamed element's opacity never
\* decreases, and once it is 1 with the appearing flag cleared neither the
\* opacity nor the flag changes again.
C3_FadeInMonotone ==
  [][ \A i \in 1..Len(group) : \A j \in 1..Len(group') :
        (group[i].uuid = group'[j].uuid /\ group[i].userData.isDynamicallyGenerated) =>
          /\ group'[j].opacity >= group[i].opacity
          /\ (group[i].opacity = OPACITY_ONE /\ ~group[i].userData.isAppearing) =>
               (group'[j].opacity = OPACITY_ONE /\ ~group'[j].userData.isAppearing) ]_vars

\* C4: the target field of view lies in [MIN_FOV, MAX_FOV] after every zoom
\* call, wheel event and pinch gesture.
C4_FovClamped == MIN_FOV <= cameraFov /\ cameraFov <= MAX_FOV

\* a zoom in has driven the target to the lower limit while a pinch is held
C4_Witness == cameraFov = MIN_FOV /\ initialPinchDistance # NoPinch

\* the capture-in-progress flag is set and cleared inside one run of
\* handleCanvasClickAndCapture (lines 240 and 360), so no handler starts
\* with it set
CaptureFlagClearBetweenHandlers == isCapturing = FALSE

\* the non-dynamic children of a group, in order
InitialChildren(g) == SelectSeq(g, LAMBDA c : ~c.userData.isDynamicallyGenerated)

\* a Landscape with at least one building
HasBuildings(L) == ~L.isNull /\ Len(L.buildings) > 0

C7_EmptyLandscapeClearsInitials ==
  [][ \A L \in Landscapes :
        (~HasBuildings(L) /\ landscapeEffect(L)) => InitialChildren(group') = << >> ]_vars

\* an empty Landscape has just removed the elements of the previous one
C7_Witness ==
  /\ ~HasBuildings(landscapeData)
  /\ group = << >>
  /\ lastRun.disposed # {}
  /\ cameraPosition = Vec(0, HIGH_ANGLE_INITIAL_CAMERA_Y, HIGH_ANGLE_INITIAL_CAMERA_Z)

\* the new children a fulfilled result of k elements at center must give,
\* compared field by field with children n+1 .. n+k of the group g
PlacedAt(g, n, value, center) ==
  \A j \in 1..Len(value) :
    /\ g[n + j].userData.id = value[j].id
    /\ g[n + j].position.x = value[j].position.x + center.x
    /\ g[n + j].position.z = value[j].position.z + center.z
    /\ g[n + j].position.y = value[j].position.y + value[j].dimensions.height \div 2
    /\ value[j].position.y = 0
    /\ g[n + j].userData.isAppearing
    /\ g[n + j].userData.isDynamicallyGenerated
    /\ g[n + j].opacity = INITIAL_DYNAMIC_OPACITY

\* the number of children the results before index i of a batch add
RECURSIVE AddedBefore(_, _)
AddedBefore(results, i) ==
  IF i <= 1 THEN 0
  ELSE AddedBefore(results, i - 1)
         + (IF results[i - 1].status = "fulfilled" THEN Len(results[i - 1].value) ELSE 0)

\* C8: when a batch's results are merged, every fulfilled sub-cluster of k
\* elements with target center (cx, cy, cz) adds exactly k new elements, each
\* at local x + cx and local z + cz on the unchanged ground level, each
\* appearing, and all k ids are in the dynamic-id set.
C8_ClusterMerge ==
  [][ \A b \in 1..Len(batches) : \A i \in 1..Len(batches[b].results) :
      \A outcome \in Outcomes : \A k \in ClusterSizes :
        LET batch == [batches[b] EXCEPT
                        !.results[i] = Result(outcome, batches[b].prefixes[i], k)]
            total == AddedBefore(batch.results, Len(batch.results) + 1)
        IN (settleRequest(b, i, outcome, k) /\ Settled(batch)) =>
             /\ Len(group') = Len(group) + total
             /\ SubSeq(group', 1, Len(group)) = group
             /\ Cardinality(UuidsOf(group')) = Cardinality(UuidsOf(group)) + total
             /\ \A r \in 1..Len(batch.results) :
                  batch.results[r].status = "fulfilled" =>
                    /\ PlacedAt(group', Len(group) + AddedBefore(batch.results, r),
                                batch.results[r].value, batch.targetCenters[r])
                    /\ \A j \in 1..Len(batch.results[r].value) :
                         batch.results[r].value[j].id \in dynamicallyGeneratedBuildings' ]_vars

\* a batch of two sub-clusters, one of 5 and one of 6 elements, has been merged
C8_Witness ==
  /\ Cardinality(lastRun.created) = 11
  /\ Len(group) >= 11
  /\ \E i \in 1..Len(group) : group[i].userData.isAppearing

\* C9: every element built from a Landscape building sits at the building's
\* x and z and at y = position.y + height / 2; a box of 10 x 20 x 10 at the
\* origin sits at y = 10.
C9_CenteredAboveGround ==
  /\ \A i \in 1..Len(group) :
       group[i].userData.isDynamicallyGenerated =>
         group[i].position.y = group[i].userData.height \div 2
  /\ \A i \in 1..Len(InitialChildren(group)) :
       \E n \in 1..Len(landscapeData.buildings) :
         LET b_data == landscapeData.buildings[n]
             element == InitialChildren(group)[i]
         IN /\ element.userData.id = b_data.id
            /\ element.position = Vec(b_data.position.x,
                                      b_data.position.y + b_data.dimensions.height \div 2,
                                      b_data.position.z)
  /\ \A i \in 1..Len(group) :
       group[i].userData.id = BuildingA.id => group[i].position = Vec(0, 100, 0)

\* the 10 x 20 x 10 box at the origin has been built
C9_Witness ==
  \E i \in 1..Len(group) :
    /\ group[i].userData.id = BuildingA.id
    /\ group[i].geometry.height = 200
    /\ group[i].position.y = 100

\* the child of g that carries the uuid u (0 when there is none)
IndexOfUuid(g, u) ==
  IF \E i \in 1..Len(g) : g[i].uuid = u
    THEN CHOOSE i \in 1..Len(g) : g[i].uuid = u
    ELSE 0

\* C11: right after a regeneration with a non-empty Landscape L the group
\* holds exactly one element per distinct id of L.buildings and no streamed
\* element; an element whose id is in the old and the new Landscape is the
\* same object as before, an id only in the old one is removed, an id only
\* in L is a new object.
C11_RegenerationReconcilesById ==
  [][ \A L \in Landscapes :
        (HasBuildings(L) /\ landscapeEffect(L)) =>
          LET old == InitialChildren(group)
              newIds == BuildingIds(L.buildings)
          IN /\ { group'[j].userData.id : j \in 1..Len(group') } = newIds
             /\ Len(group') = Cardinality(newIds)
             /\ \A j \in 1..Len(group') : ~group'[j].userData.isDynamicallyGenerated
             /\ \A i \in 1..Len(old) :
                  IF old[i].userData.id \in newIds
                    THEN /\ IndexOfUuid(group', old[i].uuid) # 0
                         /\ group'[IndexOfUuid(group', old[i].uuid)].userData.id
                              = old[i].userData.id
                    ELSE IndexOfUuid(group', old[i].uuid) = 0
             /\ \A j \in 1..Len(group') :
                  (group'[j].userData.id \notin { old[i].userData.id : i \in 1..Len(old) })
                    => group'[j].uuid \notin UuidsOf(group) ]_vars

\* a Landscape has replaced another: one element kept in place, one removed,
\* one added
C11_Witness ==
  /\ HasBuildings(landscapeData)
  /\ Len(group) = Cardinality(BuildingIds(landscapeData.buildings))
  /\ Cardinality(lastRun.disposed \cap lastRun.created \cap UuidsOf(group)) = 1
  /\ lastRun.disposed \ UuidsOf(group) # {}
  /\ lastRun.created \ lastRun.disposed # {}

\* the children of g from index n + 1 on whose id carries the cluster prefix
NewWithPrefix(g, n, prefix) ==
  { j \in (n + 1)..Len(g) : g[j].userData.id.prefix = prefix }

\* C12: when a batch has settled, every sub-cluster that fulfilled with an
\* element list has all its elements in the group, and every sub-cluster
\* that was rejected or answered null contributes none, whatever the other
\* sub-clusters of the batch did.
C12_FailuresAreIndependent ==
  [][ \A b \in 1..Len(batches) : \A i \in 1..Len(batches[b].results) :
      \A outcome \in Outcomes : \A k \in ClusterSizes :
        LET batch == [batches[b] EXCEPT
                        !.results[i] = Result(outcome, batches[b].prefixes[i], k)]
        IN (settleRequest(b, i, outcome, k) /\ Settled(batch)) =>
             \A r \in 1..Len(batch.results) :
               LET new == NewWithPrefix(group', Len(group), batch.prefixes[r])
               IN IF batch.results[r].status = "fulfilled" /\ ~batch.results[r].isNull
                    THEN { group'[j].userData.id : j \in new }
                           = { batch.results[r].value[e].id :
                                 e \in 1..Len(batch.results[r].value) }
                         /\ Cardinality(new) = Len(batch.results[r].value)
                    ELSE new = {} ]_vars

\* a batch of two sub-clusters has settled with the first one failed and the
\* second one merged
C12_Witness ==
  /\ nextClusterIdCounter = 2
  /\ batches = << >>
  /\ Cardinality(lastRun.created) \in ClusterSizes
  /\ Cardinality(lastRun.created) = Len(group)
  /\ \A j \in 1..Len(group) : group[j].userData.id.prefix = 1

\* the requests of a batch that have not settled yet
PendingRequests(batch) ==
  { r \in 1..Len(batch.results) : batch.results[r].status = "pending" }

\* C13: the in-flight counter is decremented by a batch exactly once, by 1,
\* in the step in which the last of its requests settles and not before,
\* whatever the outcomes; and with no Landscape change in between, a counter
\* above 0 leads to a counter of 0, where the guard of a new batch is open.
C13_DecrementOncePerBatch ==
  /\ [][ /\ \A b \in 1..Len(batches) : \A i \in 1..Len(batches[b].results) :
            \A outcome \in Outcomes : \A k \in StreamSizes :
              settleRequest(b, i, outcome, k) =>
                IF Cardinality(PendingRequests(batches[b])) > 1
                  THEN /\ activeClusterRequests' = activeClusterRequests
                       /\ Len(batches') = Len(batches)
                  ELSE /\ activeClusterRequests' = activeClusterRequests - 1
                       /\ Len(batches') = Len(batches) - 1
         /\ activeClusterRequests' < activeClusterRequests =>
              Len(batches') = Len(batches) - 1 ]_vars
  /\ (activeClusterRequests > 0) ~> (activeClusterRequests = 0 /\ MayIssue(TRUE, activeClusterRequests))

\* a batch of two requests that both failed has given the counter back
C13_Witness ==
  /\ activeClusterRequests = 0
  /\ batches = << >>
  /\ nextClusterIdCounter = 2
  /\ group = << >>

\* C14: a frame that starts a batch appends the batch's candidate center to
\* the TriggerPoint list in the same step, and no frame starts a batch for a
\* candidate center within MIN_DISTANCE_BETWEEN_TRIGGER_POINTS of the point
\* of a batch that is still unresolved.
C14_NoRetriggerNearUnresolvedBatch ==
  [][ Len(batches') > Len(batches) =>
        LET candidate ==
              AddScaledVector(cameraPosition', ForwardDirection(cameraAzimuthAngle),
                              CLUSTER_SPAWN_AHEAD_OFFSET)
        IN /\ generationTriggerPoints' # << >>
           /\ generationTriggerPoints'[Len(generationTriggerPoints')] = candidate
           /\ batches'[Len(batches')].baseSpawnPointAhead = candidate
           /\ \A b \in 1..Len(batches) :
                ~DistanceToSquaredLess(candidate, batches[b].baseSpawnPointAhead,
                                       MIN_DISTANCE_BETWEEN_TRIGGER_POINTS) ]_vars

\* C15: after the render phase of a capture, whether both passes succeeded
\* or one threw, the camera aspect, every element's color and the sky's
\* visibility are what they were before the capture; elements of the
\* Landscape have opacity 1 and elements still appearing have opacity
\* min(1, elapsed / FADE_IN_DURATION).
C15_CaptureRestoresScene ==
  [][ \A outcome \in RenderOutcomes :
        (mounted /\ ~isCapturing /\ handleCanvasClickAndCapture(outcome)) =>
          /\ cameraAspect' = cameraAspect
          /\ skyVisible' = skyVisible
          /\ Len(group') = Len(group)
          /\ \A i \in 1..Len(group) :
               /\ group'[i].uuid = group[i].uuid
               /\ group'[i].color = group[i].color
               /\ ~group[i].userData.isDynamicallyGenerated =>
                    group'[i].opacity = OPACITY_ONE
               /\ (group[i].userData.isDynamicallyGenerated
                     /\ group[i].userData.isAppearing) =>
                    group'[i].opacity =
                      Min(OPACITY_ONE,
                          ((clock - group[i].userData.creationTime) * OPACITY_ONE)
                            \div FADE_IN_DURATION) ]_vars

\* a capture whose second pass threw has run while an element was half way
\* through its fade-in
C15_Witness ==
  /\ lastRun.notified
  /\ lastRun.renderPasses = 1
  /\ cameraAspect = MOUNT_ASPECT
  /\ skyVisible
  /\ \E i \in 1..Len(group) :
       /\ group[i].userData.isAppearing
       /\ group[i].opacity = OPACITY_ONE \div 2
       /\ group[i].color = "city"

\* C16: the capture-in-progress flag never stays set: it is clear after every
\* handler, whether a render pass threw or not and whatever becomes of the
\* image composition, so every capture requested on a mounted scene starts
\* (it notifies onScreenshotInitiated).
C16_CaptureFlagNeverStuck ==
  /\ [](~isCapturing)
  /\ [][ \A outcome \in RenderOutcomes :
           (mounted /\ handleCanvasClickAndCapture(outcome)) =>
             (lastRun'.notified /\ ~isCapturing') ]_vars
  /\ [][ compositionSettles => ~isCapturing' ]_vars

\* a capture whose first pass threw has started while the composition of an
\* earlier capture was still awaited, and the flag is clear
C16_Witness ==
  /\ lastRun.notified
  /\ lastRun.renderPasses = 0
  /\ compositions = 1
  /\ ~isCapturing

\* the parsed answer is an array of 5 to 8 elements that all pass validation
IsWholeCluster(answer) ==
  IF answer.kind = "throws" THEN FALSE
  ELSE IF ~answer.parses THEN FALSE
  ELSE /\ answer.value.isArray
       /\ Len(answer.value.elements) \in 5..8
       /\ \A j \in 1..Len(answer.value.elements) :
            isValidBuildingElement(answer.value.elements[j])

\* C17: generateBuildingCluster returns the element list, its ids under the
\* cluster prefix, only for an answer that parses to an array of 5 to 8
\* elements that all pass validation; for every other answer (a count
\* outside 5..8, an invalid element, a throwing call or parse) it returns
\* null, and no element under that prefix is in the group, neither then nor
\* when the batch settles.
C17_ClusterAllOrNothing ==
  [][ \A b \in 1..Len(batches) : \A i \in 1..Len(batches[b].results) :
      \A answer \in ClusterAnswers :
        settleResponse(b, i, answer) =>
          LET prefix == batches[b].prefixes[i]
              list == generateBuildingCluster(prefix, answer)
              batch == [batches[b] EXCEPT !.results[i] = ClusterPromise(list, answer)]
              under(r) == NewWithPrefix(group', 0, batch.prefixes[r])
          IN /\ IF apiKey /\ IsWholeCluster(answer)
                  THEN /\ ~list.isNull
                       /\ Len(list.value) = Len(answer.value.elements)
                       /\ \A j \in 1..Len(list.value) :
                            list.value[j] =
                              [answer.value.elements[j] EXCEPT
                                 !.id = ElementId(prefix, answer.value.elements[j].id.name)]
                  ELSE list.isNull /\ list.value = << >>
             /\ \A r \in 1..Len(batch.results) :
                  IF batch.results[r].status # "pending" /\ batch.results[r].isNull
                    THEN under(r) = {}
                    ELSE Settled(batch) =>
                           Cardinality(under(r)) = Len(batch.results[r].value) ]_vars

\* the first request of a batch of two was answered with five elements of
\* which one fails validation: its promise holds null and the group holds the
\* Landscape's buildings and nothing under the request's prefix
C17_Witness ==
  /\ apiKey
  /\ mounted
  /\ ~appLandscapeData.isNull
  /\ Len(group) = Len(appLandscapeData.buildings)
  /\ \E b \in 1..Len(batches) :
       /\ Len(batches[b].results) = 2
       /\ batches[b].results[1].status = "fulfilled"
       /\ batches[b].results[1].isNull
       /\ batches[b].results[1].answer.kind = "text"
       /\ batches[b].results[1].answer.parses
       /\ batches[b].results[1].answer.value.isArray
       /\ Len(batches[b].results[1].answer.value.elements) = 5
       /\ \E j \in 1..5 :
            ~isValidBuildingElement(batches[b].results[1].answer.value.elements[j])
       /\ batches[b].results[2].status = "pending"
       /\ NewWithPrefix(group, 0, batches[b].prefixes[1]) = {}

\* the parsed answer has two string sky colors and an array of 25 to 50
\* buildings that all pass isValidBuildingElement
IsWholeLandscape(answer) ==
  IF answer.kind = "throws" THEN FALSE
  ELSE IF ~answer.parses THEN FALSE
  ELSE /\ answer.value.sky.present
       /\ answer.value.sky.topColor = "string"
       /\ answer.value.sky.horizonColor = "string"
       /\ answer.value.buildings.isArray
       /\ Len(answer.value.buildings.elements) \in 25..50
       /\ \A j \in 1..Len(answer.value.buildings.elements) :
            isValidBuildingElement(answer.value.buildings.elements[j])

\* C18: a generateNewLandscape call installs the parsed answer as
\* landscapeData, with error null, exactly when the answer has string
\* sky.topColor and sky.horizonColor and an array of 25 to 50 buildings that
\* all pass isValidBuildingElement; every other outcome (the missing key
\* included) leaves landscapeData null and error non-null, so the
\* landscapeData in force is never an invalid or partial Landscape.
C18_LandscapeInstalledIffValid ==
  /\ [][ \A answer \in LandscapeAnswers :
           landscapeResponse(answer) =>
             IF IsWholeLandscape(answer)
               THEN /\ ~appLandscapeData'.isNull
                    /\ appLandscapeData'.buildings = answer.value.buildings.elements
                    /\ appLandscapeData'.sky = answer.value.sky
                    /\ error'.isNull
               ELSE /\ appLandscapeData'.isNull
                    /\ ~error'.isNull ]_vars
  /\ [][ (generateNewLandscape /\ ~apiKey) =>
           (appLandscapeData'.isNull /\ ~error'.isNull) ]_vars
  /\ [](~appLandscapeData.isNull =>
          /\ Len(appLandscapeData.buildings) \in 25..50
          /\ \A j \in 1..Len(appLandscapeData.buildings) :
               isValidBuildingElement(appLandscapeData.buildings[j])
          /\ appLandscapeData.sky = Sky("string", "string"))

\* a Landscape of 50 buildings is installed and the call is over
C18_Witness ==
  /\ appPhase = "idle"
  /\ ~isLoading
  /\ error.isNull
  /\ ~appLandscapeData.isNull
  /\ Len(appLandscapeData.buildings) = 50

\* the constraints a parsed answer breaks, in the words of the messages of
\* lines 171-176
BrokenConstraints(parsedData) ==
  (IF parsedData.sky = Sky("string", "string") THEN {}
     ELSE {"Missing or invalid sky data."})
  \cup
  (IF parsedData.buildings.isArray
        /\ Len(parsedData.buildings.elements) \in 25..50
     THEN {} ELSE {"Buildings array issue"})
  \cup
  (IF parsedData.buildings.isArray
        /\ Len(parsedData.buildings.elements) \in 25..50
        /\ \E j \in 1..Len(parsedData.buildings.elements) :
             ~isValidBuildingElement(parsedData.buildings.elements[j])
     THEN {"Invalid building element structure."} ELSE {})

\* C19: when a parsed answer fails validation (bad sky, a building count
\* outside 25..50, or an invalid building), the error state set by the call
\* names a constraint that failed.
C19_ErrorNamesFailedConstraint ==
  [][ \A answer \in LandscapeAnswers :
        (landscapeResponse(answer)
           /\ answer.kind = "text" /\ answer.parses /\ ~IsWholeLandscape(answer)) =>
          /\ ~error'.isNull
          /\ error'.details # {}
          /\ error'.details \subseteq BrokenConstraints(answer.value) ]_vars

\* C20: every generateNewLandscape call ends with isLoading false, whatever
\* its outcome; after a call has failed the GENERATE button starts another
\* one, and a call that succeeds after a failed one ends with error null,
\* landscapeData the new Landscape and isLoading false.
C20_FailureIsRecoverable ==
  /\ [][ \A answer \in LandscapeAnswers :
           landscapeResponse(answer) =>
             /\ ~isLoading'
             /\ (failures > 0 /\ IsWholeLandscape(answer)) =>
                  /\ error'.isNull
                  /\ ~appLandscapeData'.isNull
                  /\ appLandscapeData'.buildings = answer.value.buildings.elements
                  /\ appLandscapeData'.sky = answer.value.sky ]_vars
  /\ [][ (generateNewLandscape /\ ~apiKey) => ~isLoading' ]_vars
  /\ []((appPhase = "idle" /\ ~error.isNull /\ apiKey /\ calls < MaxCalls) =>
          ENABLED generateNewLandscape)
  /\ (isLoading ~> ~isLoading)

\* a call has failed and a later one has installed a Landscape
C20_Witness ==
  /\ failures > 0
  /\ appPhase = "idle"
  /\ ~isLoading
  /\ error.isNull
  /\ ~appLandscapeData.isNull

\* a batch whose trigger point is no longer in the TriggerPoint list: the
\* Landscape effect has reset the bookkeeping since the batch was issued
IssuedBeforeReset(batch) ==
  \A p \in 1..Len(generationTriggerPoints) :
    generationTriggerPoints[p] # batch.baseSpawnPointAhead

\* C21: when a batch issued before a full regeneration settles after it,
\* every sub-cluster that fulfilled with an element list is merged into the
\* group of the new Landscape all the same: nothing discards the stale
\* batch's elements.
C21_StaleBatchIsMerged ==
  [][ \A b \in 1..Len(batches) : \A i \in 1..Len(batches[b].results) :
      \A outcome \in Outcomes : \A k \in StreamSizes :
        LET batch == [batches[b] EXCEPT
                        !.results[i] = Result(outcome, batches[b].prefixes[i], k)]
        IN (settleRequest(b, i, outcome, k) /\ Settled(batch) /\ IssuedBeforeReset(batches[b])) =>
             \A r \in 1..Len(batch.results) :
               (batch.results[r].status = "fulfilled" /\ ~batch.results[r].isNull) =>
                 /\ Len(group') >= Len(group) + Len(batch.results[r].value)
                 /\ \A e \in 1..Len(batch.results[r].value) :
                      \E j \in (Len(group) + 1)..Len(group') :
                        group'[j].userData.id = batch.results[r].value[e].id ]_vars

\* the bookkeeping was reset by a Landscape change, no batch has been issued
\* since, and the elements of a batch issued before it are in the group
\* next to the buildings of the new Landscape
C21_Witness ==
  /\ nextClusterIdCounter = 0
  /\ generationTriggerPoints = << >>
  /\ ~landscapeData.isNull
  /\ \E j \in 1..Len(group) : group[j].userData.id.prefix # NoPrefix
  /\ \E j \in 1..Len(group) : group[j].userData.id.prefix = NoPrefix
  /\ lastRun.created # {}

\* C22: when a sub-cluster request of a batch fulfils with an element list,
\* its elements are in the group after that very step, whether or not the
\* other requests of the batch have settled.
C22_AppliedAsEachSettles ==
  [][ \A b \in 1..Len(batches) : \A i \in 1..Len(batches[b].results) :
      \A k \in StreamSizes :
        settleRequest(b, i, "fulfilled", k) =>
          Cardinality(NewWithPrefix(group', Len(group), batches[b].prefixes[i])) = k ]_vars

\* C23: in every reachable state no two elements of the city group carry the
\* same id, initial and streamed elements alike.
C23_IdsUniqueInGroup ==
  \A i \in 1..Len(group) : \A j \in 1..Len(group) :
    group[i].userData.id = group[j].userData.id => i = j

\* the bookkeeping a turn has no business with
TurnLeavesAlone ==
  UNCHANGED << cameraPosition, fovVars, streamVars, sceneVars, captureVars, clock >>

TimesDisposed(disposals, target, uuid, part) ==
  Cardinality({ n \in 1..Len(disposals) : disposals[n] = DisposeCall(target, uuid, part) })

\* what a teardown has no business with
TeardownLeavesAlone ==
  UNCHANGED << appVars, cameraVars, captureVars, fovVars, streamVars, sceneVars, clock >>

\* C25: teardown disposes the geometry and the material of the sky mesh and
\* of every element of the group exactly once, and the renderer, and nothing
\* else; it detaches the render surface and nulls the refs. Run again it
\* disposes nothing and changes nothing.
C25_TeardownDisposesOnceAndIsIdempotent ==
  [][ teardown =>
        IF mounted
          THEN /\ \A part \in {"geometry", "material"} :
                    /\ TimesDisposed(disposeCalls', "sky", -1, part) = 1
                    /\ \A i \in 1..Len(group) :
                         TimesDisposed(disposeCalls', "element", group[i].uuid, part) = 1
               /\ TimesDisposed(disposeCalls', "renderer", -1, "renderer") = 1
               /\ Len(disposeCalls') = 3 + 2 * Len(group)
               /\ ~domElementAttached'
               /\ ~mounted'
               /\ ~animationFrameId'
               /\ TeardownLeavesAlone
          ELSE /\ disposeCalls' = << >>
               /\ lastRun'.disposed = {}
               /\ UNCHANGED << mounted, animationFrameId, domElementAttached >>
               /\ TeardownLeavesAlone ]_vars

\* a second teardown has run on a scene that held an initial and a streamed
\* element when the first one ran
C25_Witness ==
  /\ ~mounted
  /\ disposeCalls = << >>
  /\ ~domElementAttached
  /\ \E i, j \in 1..Len(group) :
       /\ group[i].userData.isDynamicallyGenerated
       /\ ~group[j].userData.isDynamicallyGenerated

\* C26: once teardown has run no frame tick executes, so the frame driver
\* never again changes the camera position, the azimuth, the trigger points
\* or the in-flight counter.
C26_NoFrameAfterTeardown ==
  /\ [](~mounted => ~ENABLED animate)
  /\ [][ (~mounted /\ animate) =>
           UNCHANGED << cameraPosition, cameraAzimuthAngle, azimuthRounding,
                        generationTriggerPoints, activeClusterRequests >> ]_vars

\* torn down after the camera has travelled, with a batch still in flight
C26_Witness ==
  /\ ~mounted
  /\ ~animationFrameId
  /\ disposeCalls # << >>
  /\ cameraPosition # Vec(0, HIGH_ANGLE_INITIAL_CAMERA_Y, HIGH_ANGLE_INITIAL_CAMERA_Z)
  /\ generationTriggerPoints # << >>
  /\ activeClusterRequests > 0

\* the camera one frame further along its heading
NextCameraPosition ==
  AddScaledVector(cameraPosition, ForwardDirection(cameraAzimuthAngle),
                  HIGH_ANGLE_FORWARD_SPEED)

\* C27: while a batch is in flight a frame tick is enabled (as far as the
\* camera is followed), and every tick taken then advances the camera by the
\* forward speed, ages the fade-ins and draws.
C27_RequestsNeverBlockFrames ==
  /\ []((/\ batches # << >>
         /\ activeClusterRequests >= MAX_ACTIVE_CLUSTER_REQUESTS
         /\ animationFrameId
         /\ InTravel(NextCameraPosition)) => ENABLED animate)
  /\ [][ (batches # << >> /\ mounted /\ ~isCapturing /\ animate) =>
           /\ cameraPosition' = NextCameraPosition
           /\ group' = [i \in 1..Len(group) |-> FadeInStep(group[i], clock)]
           /\ lastRun'.drew ]_vars

\* a frame has aged a streamed element while a later batch is in flight
C27_Witness ==
  /\ batches # << >>
  /\ activeClusterRequests > 0
  /\ lastRun.drew
  /\ \E i \in 1..Len(group) :
       /\ group[i].userData.isDynamicallyGenerated
       /\ group[i].opacity > INITIAL_DYNAMIC_OPACITY
       /\ group[i].opacity < OPACITY_ONE

\* the trigger test of a frame that has moved the camera to pos
TriggersAt(pos) ==
  TriggerNewGeneration(
    pos,
    AddScaledVector(pos, ForwardDirection(cameraAzimuthAngle), CLUSTER_SPAWN_AHEAD_OFFSET),
    generationTriggerPoints)

\* C28: a frame tick whose trigger condition holds while the in-flight
\* counter is at the cap starts nothing: the trigger points, the in-flight
\* counter, the cluster-id counter and the issued requests are unchanged.
C28_NothingStartsAtTheCap ==
  [][ (/\ mounted
       /\ ~isCapturing
       /\ animate
       /\ activeClusterRequests = MAX_ACTIVE_CLUSTER_REQUESTS
       /\ TriggersAt(NextCameraPosition)) =>
        UNCHANGED << generationTriggerPoints, activeClusterRequests,
                     nextClusterIdCounter, batches >> ]_vars

\* a frame has just run with the counter at the cap and its trigger test true
C28_Witness ==
  /\ mounted
  /\ lastRun.drew
  /\ activeClusterRequests = MAX_ACTIVE_CLUSTER_REQUESTS
  /\ batches # << >>
  /\ generationTriggerPoints # << >>
  /\ TriggersAt(cameraPosition)

\* the camera's distance from the world origin over the ground, squared
GroundDistanceSq(pos) == pos.x * pos.x + pos.z * pos.z

\* C30: while no trigger point is recorded, a frame tick starts a batch and
\* records a trigger point only once the camera has travelled more than half
\* the trigger distance away from the world origin.
C30_FirstTriggerWaitsForTravel ==
  [][ (/\ animate
       /\ generationTriggerPoints = << >>
       /\ (generationTriggerPoints' # << >> \/ batches' # batches)) =>
        GroundDistanceSq(cameraPosition') >
          (GENERATION_TRIGGER_DISTANCE \div 2) * (GENERATION_TRIGGER_DISTANCE \div 2) ]_vars

\* the distance the code compares is never within half the trigger distance
CameraAlwaysBeyondThreshold ==
  LengthSq(cameraPosition) >
    (GENERATION_TRIGGER_DISTANCE \div 2) * (GENERATION_TRIGGER_DISTANCE \div 2)

\* C31: a frame tick that is not skipped moves the applied field of view a
\* step toward the target without jumping onto it, and leaves it untouched
\* when the two differ by no more than 0.01 degrees.
C31_FovEasedTowardTarget ==
  [][ (animate /\ ~FrameSkipped) =>
        IF Abs(camFov - cameraFov) > FOV_EPSILON
          THEN /\ Abs(camFov' - cameraFov) < Abs(camFov - cameraFov)
               /\ camFov' # cameraFov
          ELSE camFov' = camFov ]_vars

\* a step of the Landscape effect
LandscapeChange == \E L \in StreamLandscapes : landscapeEffect(L)

\* C32: a step that is not a Landscape change (a frame tick, a settlement, a
\* capture, an input event) removes no element of the city group, and the
\* trigger point list keeps what it held.
C32_NothingRemovedBetweenLandscapes ==
  [][ ~LandscapeChange =>
        /\ UuidsOf(group) \subseteq UuidsOf(group')
        /\ Len(group') >= Len(group)
        /\ Len(generationTriggerPoints') >= Len(generationTriggerPoints)
        /\ \A p \in 1..Len(generationTriggerPoints) :
             generationTriggerPoints'[p] = generationTriggerPoints[p] ]_vars

\* a batch has been merged into a group that held the initial elements, with
\* a capture and a zoom command before it
C32_Witness ==
  /\ lastRun.created # {}
  /\ Len(group) = Cardinality(lastRun.created) + 2
  /\ dynamicallyGeneratedBuildings # {}
  /\ cameraFov # DEFAULT_FOV
  /\ compositions > 0
  /\ generationTriggerPoints # << >>

\* a property that is a number above zero
IsPositiveNumber(value) == value.t = "number" /\ value.n > 0

\* the elements the validator is to accept: a non-blank string id, type
\* building, shape box or cylinder, a numeric position on the ground, a
\* height above zero, the dimensions its shape asks for, and an orientationY
\* that is absent or a number
IsWellFormedBuilding(el) ==
  /\ el.t = "object"
  /\ el.o.id.t = "string" /\ \E c \in 1..Len(el.o.id.s) : el.o.id.s[c] # " "
  /\ el.o.type.t = "string" /\ el.o.type.s = BuildingWord
  /\ el.o.shape.t = "string" /\ el.o.shape.s \in {BoxWord, CylinderWord}
  /\ el.o.position.t = "object"
  /\ \A axis \in {"x", "y", "z"} : el.o.position.o[axis].t = "number"
  /\ el.o.position.o.y.n = 0
  /\ el.o.dimensions.t = "object"
  /\ IsPositiveNumber(el.o.dimensions.o.height)
  /\ el.o.shape.s = BoxWord =>
       (IsPositiveNumber(el.o.dimensions.o.width) /\ IsPositiveNumber(el.o.dimensions.o.depth))
  /\ el.o.shape.s = CylinderWord => IsPositiveNumber(el.o.dimensions.o.radius)
  /\ el.o.orientationY.t \in {"undefined", "number"}

\* C33: isValidBuildingElement accepts an element exactly when it is a
\* well-formed building; in particular an element without the dimensions its
\* shape asks for is rejected.
C33_ValidatorAcceptsExactlyWellFormed ==
  verdict # "none" => (verdict = "accepted" <=> IsWellFormedBuilding(submitted))

\* a cylinder whose id starts with a blank and whose orientationY is a number
\* has been accepted
C33_Witness ==
  /\ verdict = "accepted"
  /\ submitted.o.shape = JsonString(CylinderWord)
  /\ submitted.o.id = JsonString(<< " ", "b", "1" >>)
  /\ submitted.o.orientationY = JsonNumber(90)
  /\ submitted.o.dimensions.o.width = JsonUndefined

\* C34: the requests of a batch take the counter values from the one found
\* on, one apiece in issue order, and the counter ends one past the last; no
\* other step but a Landscape change moves the counter, so between two
\* regenerations the prefixes strictly increase and none is given twice.
C34_PrefixesIncreaseByOne ==
  [][ IF Len(batches') > Len(batches)
        THEN LET issued == batches'[Len(batches')].prefixes
             IN /\ \A i \in 1..Len(issued) : issued[i] = nextClusterIdCounter + i - 1
                /\ nextClusterIdCounter' = nextClusterIdCounter + Len(issued)
                /\ \A b \in 1..Len(batches) : batches'[b] = batches[b]
        ELSE ~LandscapeChange => nextClusterIdCounter' = nextClusterIdCounter ]_vars

\* a batch of two requests has been issued after an earlier batch, with no
\* regeneration since
C34_Witness ==
  /\ lastRun.drew
  /\ Len(generationTriggerPoints) = 2
  /\ nextClusterIdCounter = 3
  /\ \E b \in 1..Len(batches) : batches[b].prefixes = << 1, 2 >>

\* C35: the in-flight request counter is never negative, also when a
\* regeneration has reset it while a batch was unsettled and that batch
\* settles afterwards.
C35_InFlightCounterNeverNegative == activeClusterRequests >= 0

\* C36: a batch whose last request settles after teardown merges nothing:
\* no element is created or added, the dynamic-id set is unchanged, and of
\* the bookkeeping only the in-flight counter changes, by one down.
C36_SettlementAfterTeardownMergesNothing ==
  [][ (~mounted /\ Len(batches') < Len(batches)) =>
        /\ group' = group
        /\ lastRun'.created = {}
        /\ dynamicallyGeneratedBuildings' = dynamicallyGeneratedBuildings
        /\ activeClusterRequests' = activeClusterRequests - 1
        /\ UNCHANGED << generationTriggerPoints, nextClusterIdCounter, landscapeData,
                        cameraVars, mountVars >> ]_vars

\* the view was torn down with its initial elements and a batch in flight,
\* and the batch has settled since
C36_Witness ==
  /\ ~mounted
  /\ disposeCalls # << >>
  /\ group # << >>
  /\ lastRun.disposed = {}
  /\ batches = << >>
  /\ generationTriggerPoints # << >>
  /\ dynamicallyGeneratedBuildings = {}

\* the ids of the elements of the group flagged as dynamically generated
DynamicIdsInGroup ==
  { group[i].userData.id :
      i \in { n \in 1..Len(group) : group[n].userData.isDynamicallyGenerated } }

\* C37: while the view is mounted an id is in the dynamic-id set exactly when
\* the city group holds an element of that id flagged as dynamically
\* generated.
C37_DynamicIdsAgreeWithGroup ==
  mounted => dynamicallyGeneratedBuildings = DynamicIdsInGroup

\* streamed elements stand next to initial ones
C37_Witness ==
  /\ mounted
  /\ dynamicallyGeneratedBuildings # {}
  /\ \E i, j \in 1..Len(group) :
       /\ group[i].userData.isDynamicallyGenerated
       /\ ~group[j].userData.isDynamicallyGenerated
  /\ ~landscapeData.isNull

\* C38: at most one snapshot is pending: a capture requested while the image
\* composition of an earlier capture is still awaited starts nothing (no
\* notification, no render pass, no second composition).
C38_OneSnapshotPending ==
  /\ [](compositions <= 1)
  /\ [][ \A outcome \in RenderOutcomes :
           (compositions > 0 /\ handleCanvasClickAndCapture(outcome)) =>
             /\ ~lastRun'.notified
             /\ lastRun'.renderPasses = 0
             /\ compositions' = compositions ]_vars

\* C39: at most one landscape generation is in progress through the menu.
\* While the isGenerating prop is true, handleGenericButtonPress never calls
\* onGenerateClick (no generateNewLandscape call starts, App's state stays)
\* and never turns or zooms the camera; for the GENERATE button it triggers
\* the generic flash and nothing else. And a click starts a call only when
\* none is under way.
C39_NoCommandWhileGenerating ==
  /\ [][ \A buttonId \in ButtonIds :
           (isGenerating /\ handleGenericButtonPress(buttonId)) =>
             /\ calls' = calls
             /\ appPhase' = appPhase
             /\ isLoading' = isLoading
             /\ appLandscapeData' = appLandscapeData
             /\ cameraVars' = cameraVars
             /\ cameraFov' = cameraFov
             /\ (buttonId = "generate" => flash' = triggerFlash("generic")) ]_vars
  /\ [][ \A buttonId \in ButtonIds :
           (buttonClicked(buttonId) /\ calls' # calls) =>
             appPhase = "idle" /\ ~isLoading /\ ~isGenerating ]_vars

\* GENERATE was clicked while isGenerating was true: the generic flash shows,
\* and the mount call is still the only call
C39_Witness ==
  /\ isGenerating
  /\ ~isLoading
  /\ mounted
  /\ flash.type = "generic"
  /\ flash.isFlashing
  /\ appPhase = "idle"
  /\ calls = 1

====
